---- MODULE Spec2Model ----
(***************************************************************************)
(* RollTheDice: the per-room turn engine of app/main.py (the WebSocket     *)
(* handler ws_game and the helpers it calls), as a state machine.          *)
(*                                                                         *)
(* One room is modelled.  Player ids are 1..n in join order (the code      *)
(* draws a fresh uuid per join); actor 0 is a connection whose local       *)
(* player_id is still None.  A cell key "row,col" is the pair <<row,col>>. *)
(* None is 0 for roll numbers and player ids and "none" for field names.   *)
(***************************************************************************)
EXTENDS Integers, Sequences, FiniteSets, TLC

VARIABLES
    rolled_since,         \* history: players with a roll_dice accepted since their last write_field
    ended,                \* history: end_game has been handled in this room
    mode,                 \* g["_mode"]: "2", "3" or "2v2"
    players,              \* g["_players"]: ids in join order
    started,              \* g["_started"]
    finished,             \* g["_finished"]
    aborted,              \* g["_aborted"]
    results,              \* g["_results"]: <<>> is None / the empty list
    turn,                 \* g["_turn"]: NoTurn or [player_id, roll_index, first4oak_roll]
    dice,                 \* g["_dice"]
    holds,                \* g["_holds"]
    rolls_used,           \* g["_rolls_used"]
    rolls_max,            \* g["_rolls_max"]
    scoreboards,          \* g["_scoreboards"]: pid -> board
    scoreboards_by_team,  \* g["_scoreboards_by_team"]: "A"/"B" -> board
    announced_row4,       \* g["_announced_row4"]
    correction,           \* g["_correction"]
    last_write,           \* g["_last_write"]: pid -> [row, col, rolls_used]
    last_dice,            \* g["_last_dice"]: pid -> dice
    last_meta,            \* g["_last_meta"]: pid -> [announced, roll_index, first4oak_roll]
    idle,                 \* now - g["_last_activity"] > GAME_TIMEOUT
    logged,               \* how often _finalize_and_log_results has run for the room
    latest_cell,          \* history: pid -> the cell that still holds pid's latest write
    moved,                \* history: who committed the last correction, and the old cell
    spent,                \* history: the events counted against MaxEvents so far
    conns,                \* the ws_game coroutines followed step by step: where each stands
    scored,               \* what the scoring functions returned for the hand last scored
    reply                 \* what happened last: the message sent and the action it answers

vars == <<mode, ended, rolled_since, players, started, finished, aborted, results, turn, dice,
          holds, rolls_used, rolls_max, scoreboards, scoreboards_by_team, announced_row4,
          correction, last_write, last_dice, last_meta, idle, logged, latest_cell, moved, spent,
          conns, scored, reply>>

(***************************************************************************)
(* Bounds of the model.                                                    *)
(***************************************************************************)
\* random.randint(1, 6) is explored for the faces 1..MaxFace
MaxFace == 2
\* the last VaryingDice dice take every face of 1..MaxFace, the others land on 1 1 1 2
VaryingDice == 1
\* the counter of result finalisations saturates here
MaxLogged == 2
\* what one explored game takes altogether of: accepted rolls, accepted correction
\* requests, set_hold, end_game, joins of a full room, lapses of the inactivity window
\* (the handlers have no such limit)
MaxEvents == 2
\* the ws_game coroutines whose steps between two awaits are followed one by one
MaxConns == 2

(***************************************************************************)
(* Static board layout.                                                    *)
(***************************************************************************)
None == 0
NoField == "none"
NoCell == <<-1, "none">>

WRITABLE_ROWS == <<0, 1, 2, 3, 4, 5, 9, 10, 12, 13, 14, 15>>

WRITABLE_MAP ==
    [r \in {0, 1, 2, 3, 4, 5, 9, 10, 12, 13, 14, 15} |->
        CASE r = 0 -> "1" [] r = 1 -> "2" [] r = 2 -> "3" [] r = 3 -> "4"
          [] r = 4 -> "5" [] r = 5 -> "6" [] r = 9 -> "max" [] r = 10 -> "min"
          [] r = 12 -> "kenter" [] r = 13 -> "full" [] r = 14 -> "poker"
          [] r = 15 -> "60"]

Fields == {WRITABLE_MAP[r] : r \in DOMAIN WRITABLE_MAP}

KEY_TO_ROW == [f \in Fields |-> CHOOSE r \in DOMAIN WRITABLE_MAP : WRITABLE_MAP[r] = f]

Cols == {"down", "free", "up", "ang"}

AllCells == (DOMAIN WRITABLE_MAP) \X Cols

WRITABLE_CELLS_PER_PLAYER == Len(WRITABLE_ROWS) * 4

RowSet(seq) == {seq[i] : i \in DOMAIN seq}

Reversed(seq) == [i \in DOMAIN seq |-> seq[Len(seq) + 1 - i]]

(***************************************************************************)
(* Scoring.                                                                *)
(***************************************************************************)
DicePos == 1..5

ZeroDice == <<0, 0, 0, 0, 0>>

NoHolds == <<FALSE, FALSE, FALSE, FALSE, FALSE>>

\* Counter(d for d in dice if d): the faces present and how often each occurs
counts(d) ==
    [f \in {d[i] : i \in DicePos} \ {0} |-> Cardinality({i \in DicePos : d[i] = f})]

has_n_of_a_kind(d, n) == \E f \in DOMAIN counts(d) : counts(d)[f] >= n

RECURSIVE SumSeq(_)
SumSeq(s) == IF s = <<>> THEN 0 ELSE Head(s) + SumSeq(Tail(s))

\* the face of the first die, whatever the counts
first_face(d) == d[1]

\* cnt.most_common(1)[0][0]: the most frequent face, the first seen on a tie
most_common_face(d) ==
    LET cnt == counts(d)
        best == {f \in DOMAIN cnt : \A h \in DOMAIN cnt : cnt[h] <= cnt[f]}
        first == CHOOSE i \in DicePos :
                    /\ d[i] \in best
                    /\ \A j \in DicePos : d[j] \in best => i <= j
    IN d[first]

score_field_value(field_key, d) ==
    LET cnt == counts(d)
        total == SumSeq(d)
        vals == {cnt[f] : f \in DOMAIN cnt}
    IN CASE field_key \in {"1", "2", "3", "4", "5", "6"} ->
              LET face == CHOOSE k \in 1..6 : WRITABLE_MAP[k - 1] = field_key
              IN (IF face \in DOMAIN cnt THEN cnt[face] ELSE 0) * face
         [] field_key \in {"max", "min"} -> total
         [] field_key = "kenter" ->
              IF Cardinality(DOMAIN cnt) = 5 THEN 35 ELSE 0
         [] field_key = "full" ->
              IF DOMAIN cnt = {} THEN 0
              ELSE IF \/ (Cardinality(DOMAIN cnt) = 2 /\ vals = {2, 3})
                      \/ (Cardinality(DOMAIN cnt) = 1 /\ vals = {5})
                   THEN 40 + 3 * most_common_face(d)
                   ELSE 0
         [] field_key = "poker" ->
              IF \E f \in DOMAIN cnt : cnt[f] >= 4
              THEN 50 + 4 * (CHOOSE f \in DOMAIN cnt : cnt[f] >= 4)
              ELSE 0
         [] field_key = "60" ->
              IF \E f \in DOMAIN cnt : cnt[f] = 5
              THEN 60 + 5 * (CHOOSE f \in DOMAIN cnt : cnt[f] = 5)
              ELSE 0
         [] OTHER -> 0

\* rules._counts(dice): every value of the tuple and how often it occurs
rules_counts(d) == [f \in {d[i] : i \in DicePos} |-> Cardinality({i \in DicePos : d[i] = f})]

\* Counter(dice).most_common(1)[0][0] of rules.score_field
rules_most_common(d) ==
    LET cnt == rules_counts(d)
        best == {f \in DOMAIN cnt : \A h \in DOMAIN cnt : cnt[h] <= cnt[f]}
        first == CHOOSE i \in DicePos :
                    /\ d[i] \in best
                    /\ \A j \in DicePos : d[j] \in best => i <= j
    IN d[first]

\* rules.score_field(field_name, dice, poker_allowed=...) for a field of ROW_FIELDS
score_field(field_name, d, poker_allowed) ==
    LET cnt == rules_counts(d)
        total == SumSeq(d)
        vals == {cnt[f] : f \in DOMAIN cnt}
    IN CASE field_name \in {"1", "2", "3", "4", "5", "6"} ->
              LET face == CHOOSE k \in 1..6 : WRITABLE_MAP[k - 1] = field_name
              IN (IF face \in DOMAIN cnt THEN cnt[face] ELSE 0) * face
         [] field_name = "max" -> total
         [] field_name = "min" -> total
         [] field_name = "kenter" ->
              IF Cardinality(DOMAIN cnt) = 5 THEN 35 ELSE 0
         [] field_name = "full" ->
              IF Cardinality(DOMAIN cnt) = 2
              THEN IF 4 \notin vals THEN 40 + 3 * rules_most_common(d) ELSE 0
              ELSE IF 5 \in vals THEN 40 + 3 * rules_most_common(d) ELSE 0
         [] field_name = "poker" ->
              IF ~poker_allowed THEN 0
              ELSE IF \E f \in DOMAIN cnt : cnt[f] = 4
                   THEN 50 + 4 * (CHOOSE f \in DOMAIN cnt : cnt[f] = 4)
                   ELSE 0
         [] field_name = "60" ->
              IF \E f \in DOMAIN cnt : cnt[f] = 5
              THEN 60 + 5 * (CHOOSE f \in DOMAIN cnt : cnt[f] = 5)
              ELSE 0

(***************************************************************************)
(* Teams and boards.                                                       *)
(***************************************************************************)
EmptyBoard == [c \in {} |-> 0]

Expected == IF mode = "2v2" THEN 4 ELSE IF mode = "3" THEN 3 ELSE 2

is_team_mode == mode = "2v2"

PlayerIds == RowSet(players)

\* order.index(player_id) of a joined player
JoinIndex(pid) == CHOOSE i \in DOMAIN players : players[i] = pid

\* assign_team_for_join as it would be if every joiner went to the first team
team_of_first(pid) == "A"

\* the team assign_team_for_join gave the player at its join
team_of(pid) == IF (JoinIndex(pid) - 1) % 2 = 0 THEN "A" ELSE "B"

board_key_for_actor(pid) == IF pid \in PlayerIds THEN team_of(pid) ELSE "A"

\* the dict the handlers read and write for an actor (team board or own board)
TargetBoard(pid) ==
    IF is_team_mode
    THEN IF board_key_for_actor(pid) \in DOMAIN scoreboards_by_team
         THEN scoreboards_by_team[board_key_for_actor(pid)]
         ELSE EmptyBoard
    ELSE IF pid \in DOMAIN scoreboards THEN scoreboards[pid] ELSE EmptyBoard

filled_rows_for(pid, col) == {c[1] : c \in {k \in DOMAIN TargetBoard(pid) : k[2] = col}}

\* first row of the column's order that is not filled; -1 is None
next_required_row(col, filled) ==
    LET order == IF col = "down" THEN WRITABLE_ROWS ELSE Reversed(WRITABLE_ROWS)
        open == {i \in DOMAIN order : order[i] \notin filled}
    IN IF open = {} THEN -1
       ELSE order[CHOOSE i \in open : \A j \in open : i <= j]

remaining_cells_for(pid) ==
    WRITABLE_CELLS_PER_PLAYER - Cardinality(DOMAIN TargetBoard(pid))

is_last_turn_for(pid) == remaining_cells_for(pid) = 1

Verdict(ok, why, arg) == [ok |-> ok, why |-> why, arg |-> arg]

\* can_write_now as it would be without the way out for the last empty cell
can_write_now_no_last_cell(pid, row, col, during_turn_announce) ==
    IF row \notin RowSet(WRITABLE_ROWS)
    THEN Verdict(FALSE, "not_writable", -1)
    ELSE IF during_turn_announce # NoField /\ ~is_last_turn_for(pid)
    THEN IF col # "ang" THEN Verdict(FALSE, "announce_only_ang", -1)
         ELSE IF during_turn_announce # WRITABLE_MAP[row]
              THEN Verdict(FALSE, "announced_other_field", -1)
              ELSE Verdict(TRUE, "", -1)
    ELSE IF col = "free"
    THEN Verdict(TRUE, "", -1)
    ELSE IF col = "ang"
    THEN IF is_last_turn_for(pid) THEN Verdict(TRUE, "", -1)
         ELSE IF rolls_used = 1 THEN Verdict(TRUE, "", -1)
         ELSE IF during_turn_announce = NoField
              THEN Verdict(FALSE, "no_announcement", -1)
              ELSE IF during_turn_announce # WRITABLE_MAP[row]
                   THEN Verdict(FALSE, "announced_other_field", -1)
                   ELSE Verdict(TRUE, "", -1)
    ELSE IF col \in {"down", "up"}
    THEN LET next_row == next_required_row(col, filled_rows_for(pid, col))
         IN IF next_row = -1 THEN Verdict(FALSE, "column_full", -1)
            ELSE IF row # next_row THEN Verdict(FALSE, "next_required", next_row)
            ELSE Verdict(TRUE, "", -1)
    ELSE Verdict(FALSE, "unknown_column", -1)

\* can_write_now as it would be without the rule of the active announcement
can_write_now_unannounced(pid, row, col, during_turn_announce) ==
    IF row \notin RowSet(WRITABLE_ROWS)
    THEN Verdict(FALSE, "not_writable", -1)
    ELSE IF remaining_cells_for(pid) = 1
    THEN Verdict(TRUE, "", -1)
    ELSE IF col \in {"free", "ang"}
    THEN Verdict(TRUE, "", -1)
    ELSE IF col \in {"down", "up"}
    THEN LET next_row == next_required_row(col, filled_rows_for(pid, col))
         IN IF next_row = -1 THEN Verdict(FALSE, "column_full", -1)
            ELSE IF row # next_row THEN Verdict(FALSE, "next_required", next_row)
            ELSE Verdict(TRUE, "", -1)
    ELSE Verdict(FALSE, "unknown_column", -1)

\* can_write_now as it would be if the announced column were open after any roll
can_write_now_any_roll(pid, row, col, during_turn_announce) ==
    IF row \notin RowSet(WRITABLE_ROWS)
    THEN Verdict(FALSE, "not_writable", -1)
    ELSE IF remaining_cells_for(pid) = 1
    THEN Verdict(TRUE, "", -1)
    ELSE IF during_turn_announce # NoField /\ ~is_last_turn_for(pid)
    THEN IF col # "ang" THEN Verdict(FALSE, "announce_only_ang", -1)
         ELSE IF during_turn_announce # WRITABLE_MAP[row]
              THEN Verdict(FALSE, "announced_other_field", -1)
              ELSE Verdict(TRUE, "", -1)
    ELSE IF col = "free"
    THEN Verdict(TRUE, "", -1)
    ELSE IF col = "ang"
    THEN IF is_last_turn_for(pid) THEN Verdict(TRUE, "", -1)
         ELSE Verdict(TRUE, "", -1)
    ELSE IF col \in {"down", "up"}
    THEN LET next_row == next_required_row(col, filled_rows_for(pid, col))
         IN IF next_row = -1 THEN Verdict(FALSE, "column_full", -1)
            ELSE IF row # next_row THEN Verdict(FALSE, "next_required", next_row)
            ELSE Verdict(TRUE, "", -1)
    ELSE Verdict(FALSE, "unknown_column", -1)

can_write_now(pid, row, col, during_turn_announce) ==
    IF row \notin RowSet(WRITABLE_ROWS)
    THEN Verdict(FALSE, "not_writable", -1)
    ELSE IF remaining_cells_for(pid) = 1
    THEN Verdict(TRUE, "", -1)
    ELSE IF during_turn_announce # NoField /\ ~is_last_turn_for(pid)
    THEN IF col # "ang" THEN Verdict(FALSE, "announce_only_ang", -1)
         ELSE IF during_turn_announce # WRITABLE_MAP[row]
              THEN Verdict(FALSE, "announced_other_field", -1)
              ELSE Verdict(TRUE, "", -1)
    ELSE IF col = "free"
    THEN Verdict(TRUE, "", -1)
    ELSE IF col = "ang"
    THEN IF is_last_turn_for(pid) THEN Verdict(TRUE, "", -1)
         ELSE IF rolls_used = 1 THEN Verdict(TRUE, "", -1)
         ELSE IF during_turn_announce = NoField
              THEN Verdict(FALSE, "no_announcement", -1)
              ELSE IF during_turn_announce # WRITABLE_MAP[row]
                   THEN Verdict(FALSE, "announced_other_field", -1)
                   ELSE Verdict(TRUE, "", -1)
    ELSE IF col \in {"down", "up"}
    THEN LET next_row == next_required_row(col, filled_rows_for(pid, col))
         IN IF next_row = -1 THEN Verdict(FALSE, "column_full", -1)
            ELSE IF row # next_row THEN Verdict(FALSE, "next_required", next_row)
            ELSE Verdict(TRUE, "", -1)
    ELSE Verdict(FALSE, "unknown_column", -1)

\* next_turn as it would be without the wrap from the last player to the first
next_turn_no_wrap(ids, current_pid) ==
    IF ids = <<>> THEN None
    ELSE IF \E i \in DOMAIN ids : ids[i] = current_pid
         THEN LET i == CHOOSE k \in DOMAIN ids : ids[k] = current_pid
              IN IF i < Len(ids) THEN ids[i + 1] ELSE ids[i]
         ELSE ids[1]

next_turn(ids, current_pid) ==
    IF ids = <<>> THEN None
    ELSE IF \E i \in DOMAIN ids : ids[i] = current_pid
         THEN ids[((CHOOSE i \in DOMAIN ids : ids[i] = current_pid) % Len(ids)) + 1]
         ELSE ids[1]

(***************************************************************************)
(* Results.                                                                *)
(***************************************************************************)
\* compute_row_subtotals(...)["total_column"] for one column of a board
compute_row_subtotals(sb, col) ==
    LET has(key) == <<KEY_TO_ROW[key], col>> \in DOMAIN sb
        g(key) == IF has(key) THEN sb[<<KEY_TO_ROW[key], col>>] ELSE 0
        sum_top == g("1") + g("2") + g("3") + g("4") + g("5") + g("6")
        bonus_top == IF sum_top >= 60 THEN 30 ELSE 0
        sum_maxmin == IF has("1") /\ has("max") /\ has("min")
                      THEN g("1") * (g("max") - g("min")) ELSE 0
        sum_bottom == g("kenter") + g("full") + g("poker") + g("60")
    IN sum_top + bonus_top + sum_maxmin + sum_bottom

compute_overall(sb) ==
    compute_row_subtotals(sb, "down") + compute_row_subtotals(sb, "free")
      + compute_row_subtotals(sb, "up") + compute_row_subtotals(sb, "ang")

RECURSIVE InsertByTotal(_, _)
InsertByTotal(sorted, x) ==
    IF sorted = <<>> THEN <<x>>
    ELSE IF Head(sorted).total >= x.total
         THEN <<Head(sorted)>> \o InsertByTotal(Tail(sorted), x)
         ELSE <<x>> \o sorted

\* sorted(..., key=total, reverse=True): stable, highest total first
RECURSIVE SortByTotal(_)
SortByTotal(s) ==
    IF s = <<>> THEN <<>>
    ELSE InsertByTotal(SortByTotal(SubSeq(s, 1, Len(s) - 1)), s[Len(s)])

compute_results_for_snapshot(pl, sb, sbt) ==
    IF is_team_mode
    THEN SortByTotal(
           [i \in 1..2 |->
              LET tid == IF i = 1 THEN "A" ELSE "B"
              IN [player |-> i,
                  total |-> IF tid \in DOMAIN sbt THEN compute_overall(sbt[tid]) ELSE 0]])
    ELSE SortByTotal(
           [i \in DOMAIN pl |->
              [player |-> pl[i],
               total |-> IF pl[i] \in DOMAIN sb THEN compute_overall(sb[pl[i]]) ELSE 0]])

\* snapshot(g) fills g["_results"] when the room is finished and has none yet
snapshot_results(fin, res, pl, sb, sbt) ==
    IF fin /\ res = <<>> THEN compute_results_for_snapshot(pl, sb, sbt) ELSE res

is_game_finished(pl, sb, sbt) ==
    IF pl = <<>> THEN FALSE
    ELSE IF is_team_mode
    THEN \A tid \in {"A", "B"} :
            Cardinality(IF tid \in DOMAIN sbt THEN DOMAIN sbt[tid] ELSE {})
                >= WRITABLE_CELLS_PER_PLAYER
    ELSE \A i \in DOMAIN pl :
            WRITABLE_CELLS_PER_PLAYER
              - Cardinality(IF pl[i] \in DOMAIN sb THEN DOMAIN sb[pl[i]] ELSE {}) = 0


(***************************************************************************)
(* Inputs of the handlers.                                                 *)
(***************************************************************************)
\* what random.randint delivers for the five dice of one roll
RollOutcomes ==
    {o \in [DicePos -> 1..MaxFace] :
        \A i \in DicePos : i <= 5 - VaryingDice => o[i] = <<1, 1, 1, 2, 2>>[i]}

\* data["holds"] of set_hold
HoldInputs == {NoHolds, <<FALSE, FALSE, FALSE, FALSE, TRUE>>}

\* data["field"] of announce_row4 ("x" is no field)
AnnounceInputs == {"poker", "60", "x"}

\* data["row"] and data["field"] of write_field / write_field_correction
\* (row 6 is not writable, column "x" does not exist)
CellInputs ==
    {<<14, "free">>, <<15, "down">>, <<14, "down">>, <<13, "free">>, <<14, "ang">>,
     <<6, "free">>, <<14, "x">>}

\* the connections' player_id: a joined player
Actors == PlayerIds

Modes == {"2", "3", "2v2"}

(***************************************************************************)
(* State after new_game(gid, name, mode).                                  *)
(***************************************************************************)
NoTurn == [player_id |-> None, roll_index |-> 0, first4oak_roll |-> None]

NoMove == [player_id |-> None, from |-> NoCell]

NoCorrection ==
    [active |-> FALSE, player_id |-> None, dice |-> ZeroDice,
     roll_index |-> 0, first4oak_roll |-> None]

\* what a handler sent last: the kind of message ("none", "snapshot", "error", "chat"),
\* the action it answers and, for an error, the reason
Reply(kind, act, why) == [kind |-> kind, act |-> act, why |-> why]

EmptyMap == [x \in {} |-> 0]

\* a ws_game coroutine: pc is where it stands ("idle" in receive_json, "received"
\* with the message in hand, "checked" past the checks of write_field, "sending" in
\* the send_json of its answer, "done"), seat the player_id of its connection
Conns == 1..MaxConns

ConnOf(pid) ==
    [pc |-> "idle", seat |-> pid, row |-> -1, col |-> "none", strike |-> FALSE,
     ok |-> "none"]

\* no coroutine is followed step by step: every handler is one action
NoConns == [c \in Conns |-> ConnOf(None)]

\* no hand has been scored
NoScore ==
    [hand |-> ZeroDice, field |-> NoField, poker_allowed |-> FALSE, value |-> 0,
     by_rules |-> 0]

\* the room new_game builds, left alone for the inactivity window if stale
unjoined_room(m, stale) ==
    /\ mode = m
    /\ ended = FALSE
    /\ rolled_since = {}
    /\ players = <<>>
    /\ started = FALSE
    /\ finished = FALSE
    /\ aborted = FALSE
    /\ results = <<>>
    /\ turn = NoTurn
    /\ dice = ZeroDice
    /\ holds = NoHolds
    /\ rolls_used = 0
    /\ rolls_max = 3
    /\ scoreboards = EmptyMap
    /\ scoreboards_by_team = EmptyMap
    /\ announced_row4 = NoField
    /\ correction = NoCorrection
    /\ last_write = EmptyMap
    /\ last_dice = EmptyMap
    /\ last_meta = EmptyMap
    /\ idle = stale
    /\ logged = 0
    /\ latest_cell = EmptyMap
    /\ spent = IF stale THEN 1 ELSE 0
    /\ conns = NoConns
    /\ moved = NoMove
    /\ reply = Reply("none", "", "")

new_game(m) == unjoined_room(m, FALSE) /\ scored = NoScore

(***************************************************************************)
(* Shared pieces of the handlers.                                          *)
(***************************************************************************)
room == <<mode, ended, rolled_since, moved, spent, players, started, finished, aborted, results,
          turn, dice, holds, rolls_used, rolls_max, scoreboards, scoreboards_by_team,
          announced_row4, correction, last_write, last_dice, last_meta, idle, logged,
          latest_cell>>

\* check_timeout_and_abort(g) would return True
TimedOut == idle /\ ~finished

\* a rejection as it would be if the handler reset the holds before it answered
RejectResettingHolds(act, why, arg) ==
    /\ reply' = Reply("error", act, why)
    /\ holds' = NoHolds
    /\ UNCHANGED <<mode, ended, rolled_since, moved, spent, players, started, finished, aborted,
                   results, turn, dice, rolls_used, rolls_max, scoreboards,
                   scoreboards_by_team, announced_row4, correction, last_write, last_dice,
                   last_meta, idle, logged, latest_cell>>

\* websocket.send_json({"error": ...}); continue
Reject(act, why, arg) == reply' = Reply("error", act, why) /\ UNCHANGED room

\* continue without any message
Drop(act) == reply' = Reply("none", act, "") /\ UNCHANGED room

\* f with key k set to v (dict assignment)
Put(f, k, v) == [x \in DOMAIN f \cup {k} |-> IF x = k THEN v ELSE f[x]]

\* f without key k (dict.pop(k, None))
Pop(f, k) == [x \in DOMAIN f \ {k} |-> f[x]]

\* the board dicts after board[key] = value on the actor's target board
WriteCell(sb, sbt, pid, key, value) ==
    IF is_team_mode
    THEN <<sb, Put(sbt, board_key_for_actor(pid),
                   Put(IF board_key_for_actor(pid) \in DOMAIN sbt
                       THEN sbt[board_key_for_actor(pid)] ELSE EmptyBoard, key, value))>>
    ELSE <<Put(sb, pid, Put(IF pid \in DOMAIN sb THEN sb[pid] ELSE EmptyBoard, key, value)),
           sbt>>

\* the board dicts after board.pop(key, None) on the actor's target board
PopCell(sb, sbt, pid, key) ==
    IF is_team_mode
    THEN <<sb, Put(sbt, board_key_for_actor(pid),
                   Pop(IF board_key_for_actor(pid) \in DOMAIN sbt
                       THEN sbt[board_key_for_actor(pid)] ELSE EmptyBoard, key))>>
    ELSE <<Put(sb, pid, Pop(IF pid \in DOMAIN sb THEN sb[pid] ELSE EmptyBoard, key)), sbt>>

\* the target board of pid within given board dicts
BoardIn(sb, sbt, pid) ==
    IF is_team_mode
    THEN IF board_key_for_actor(pid) \in DOMAIN sbt
         THEN sbt[board_key_for_actor(pid)] ELSE EmptyBoard
    ELSE IF pid \in DOMAIN sb THEN sb[pid] ELSE EmptyBoard

\* the board pid writes to: the team in team mode, else the player
WriterKey(pid) == IF is_team_mode THEN board_key_for_actor(pid) ELSE pid

\* _set_roll_cap_for_current_turn(g) for the actor pid and the boards sb, sbt
roll_cap_for(sb, sbt, pid) ==
    IF pid # None
       /\ WRITABLE_CELLS_PER_PLAYER - Cardinality(DOMAIN BoardIn(sb, sbt, pid)) = 1
    THEN 5 ELSE 3


TurnIs(pid) == turn # NoTurn /\ turn.player_id = pid

Snapshot(act) == Reply("snapshot", act, "")

(***************************************************************************)
(* join_game                                                               *)
(***************************************************************************)
JoinGame ==
    /\ ~TimedOut
    /\ Len(players) >= Expected => spent < MaxEvents
    /\ spent' = IF Len(players) >= Expected THEN spent + 1 ELSE spent
    /\ LET pid == Len(players) + 1
           pl == Append(players, pid)
           team == IF (Len(pl) - 1) % 2 = 0 THEN "A" ELSE "B"
           sb == Put(scoreboards, pid, EmptyBoard)
           sbt == IF is_team_mode /\ team \notin DOMAIN scoreboards_by_team
                  THEN Put(scoreboards_by_team, team, EmptyBoard)
                  ELSE scoreboards_by_team
           starts == Len(pl) = Expected /\ ~started
       IN /\ players' = pl
          /\ scoreboards' = sb
          /\ scoreboards_by_team' = sbt
          /\ latest_cell' = Put(latest_cell, pid, NoCell)
          /\ started' = (starts \/ started)
          /\ turn' = IF starts
                     THEN [player_id |-> pl[1], roll_index |-> 0, first4oak_roll |-> None]
                     ELSE turn
          /\ rolls_max' = IF starts THEN roll_cap_for(sb, sbt, pl[1]) ELSE rolls_max
          /\ idle' = FALSE
          /\ results' = snapshot_results(finished, results, pl, sb, sbt)
          /\ reply' = Snapshot("join_game")
    /\ UNCHANGED <<mode, rolled_since, ended, moved, finished, aborted, dice, holds, rolls_used,
                   announced_row4, correction, last_write, last_dice, last_meta, logged>>

(***************************************************************************)
(* rejoin_game, chat_message / send_emoji                                  *)
(***************************************************************************)
RejoinGame ==
    /\ ~TimedOut
    /\ idle' = FALSE
    /\ results' = snapshot_results(finished, results, players, scoreboards, scoreboards_by_team)
    /\ reply' = Snapshot("rejoin_game")
    /\ UNCHANGED <<mode, rolled_since, ended, moved, spent, players, started, finished, aborted,
                   turn, dice, holds, rolls_used, rolls_max, scoreboards, scoreboards_by_team,
                   announced_row4, correction, last_write, last_dice, last_meta, logged,
                   latest_cell>>

ChatMessage ==
    /\ ~TimedOut
    /\ idle' = FALSE
    /\ reply' = Reply("chat", "chat_message", "")
    /\ UNCHANGED <<mode, rolled_since, ended, moved, spent, players, started, finished, aborted,
                   results, turn, dice, holds, rolls_used, rolls_max, scoreboards,
                   scoreboards_by_team, announced_row4, correction, last_write, last_dice,
                   last_meta, logged, latest_cell>>

(***************************************************************************)
(* set_hold                                                                *)
(***************************************************************************)
SetHold(h) ==
    /\ ~TimedOut
    /\ spent < MaxEvents
    /\ spent' = spent + 1
    /\ holds' = h
    /\ idle' = FALSE
    /\ results' = snapshot_results(finished, results, players, scoreboards, scoreboards_by_team)
    /\ reply' = Snapshot("set_hold")
    /\ UNCHANGED <<mode, rolled_since, ended, moved, players, started, finished, aborted, turn,
                   dice, rolls_used, rolls_max, scoreboards, scoreboards_by_team,
                   announced_row4, correction, last_write, last_dice, last_meta, logged,
                   latest_cell>>

\* the connections a set_hold can come from: a joined player or one that never joined
Senders == {None} \cup PlayerIds

\* set_hold received on the connection of pid: the handler does not look at player_id
SetHoldBy(pid, h) == pid \in Senders /\ SetHold(h)

(***************************************************************************)
(* roll_dice                                                               *)
(***************************************************************************)
\* roll_dice as it would be without the look at the correction mode
RollDiceErrorNoCorrection(pid) ==
    IF ~TurnIs(pid) THEN "not_your_turn"
    ELSE IF rolls_used >= rolls_max THEN "no_rolls_left"
    ELSE ""

\* the reason roll_dice answers with an error, "" if none
RollDiceError(pid) ==
    IF ~TurnIs(pid) THEN "not_your_turn"
    ELSE IF correction.active THEN "correction_active"
    ELSE IF rolls_used >= rolls_max THEN "no_rolls_left"
    ELSE ""

\* first4oak_roll as it would be if every roll showing four equal dice were noted
first4oak_latest(first4, d, idx) == IF has_n_of_a_kind(d, 4) THEN idx ELSE first4

\* first4oak_roll after the roll with index idx has left the dice d
first4oak_after(first4, d, idx) ==
    IF first4 = None /\ has_n_of_a_kind(d, 4) THEN idx ELSE first4

\* roll_dice as it would be if it rolled the held dice too
RollDiceIgnoringHolds(pid, o) ==
    /\ ~TimedOut
    /\ IF RollDiceError(pid) # ""
       THEN Reject("roll_dice", RollDiceError(pid), -1)
       ELSE /\ spent < MaxEvents
            /\ LET d == [i \in DicePos |-> o[i]]
                    idx == turn.roll_index + 1
                IN /\ dice' = d
                   /\ rolls_used' = rolls_used + 1
                   /\ turn' = [turn EXCEPT
                         !.roll_index = idx,
                         !.first4oak_roll = first4oak_after(turn.first4oak_roll, d, idx)]
                   /\ idle' = FALSE
                   /\ results' = snapshot_results(finished, results, players,
                                                  scoreboards, scoreboards_by_team)
                   /\ reply' = Snapshot("roll_dice")
                   /\ rolled_since' = PlayerIds
                   /\ spent' = spent + 1
                   /\ UNCHANGED <<mode, ended, moved, players, started, finished, aborted,
                                  holds, rolls_max, scoreboards, scoreboards_by_team,
                                  announced_row4, correction, last_write, last_dice, last_meta,
                                  logged, latest_cell>>

RollDice(pid, o) ==
    /\ ~TimedOut
    /\ IF RollDiceError(pid) # ""
       THEN Reject("roll_dice", RollDiceError(pid), -1)
       ELSE /\ spent < MaxEvents
            /\ LET d == [i \in DicePos |-> IF holds[i] THEN dice[i] ELSE o[i]]
                    idx == turn.roll_index + 1
                IN /\ dice' = d
                   /\ rolls_used' = rolls_used + 1
                   /\ turn' = [turn EXCEPT
                         !.roll_index = idx,
                         !.first4oak_roll = first4oak_after(turn.first4oak_roll, d, idx)]
                   /\ idle' = FALSE
                   /\ results' = snapshot_results(finished, results, players,
                                                  scoreboards, scoreboards_by_team)
                   /\ reply' = Snapshot("roll_dice")
                   /\ rolled_since' = PlayerIds
                   /\ spent' = spent + 1
                   /\ UNCHANGED <<mode, ended, moved, players, started, finished, aborted,
                                  holds, rolls_max, scoreboards, scoreboards_by_team,
                                  announced_row4, correction, last_write, last_dice, last_meta,
                                  logged, latest_cell>>

\* roll_cooldown_ok(...) is False: the roll is swallowed without any message
RollDiceCooldown(pid) ==
    /\ ~TimedOut
    /\ RollDiceError(pid) = ""
    /\ Drop("roll_dice")

(***************************************************************************)
(* announce_row4, unannounce_row4                                          *)
(***************************************************************************)
\* announce_row4 as it would be without the look at the announced cell
AnnounceErrorNoFilled(pid, field) ==
    IF ~TurnIs(pid) THEN "not_your_turn"
    ELSE IF correction.active THEN "correction_active"
    ELSE IF rolls_used # 1 THEN "announce_window"
    ELSE IF field \notin Fields THEN "invalid_field"
    ELSE ""

AnnounceError(pid, field) ==
    IF ~TurnIs(pid) THEN "not_your_turn"
    ELSE IF correction.active THEN "correction_active"
    ELSE IF rolls_used # 1 THEN "announce_window"
    ELSE IF field \notin Fields THEN "invalid_field"
    ELSE IF <<KEY_TO_ROW[field], "ang">> \in DOMAIN TargetBoard(pid) THEN "announce_filled"
    ELSE ""

AnnounceRow4(pid, field) ==
    /\ ~TimedOut
    /\ IF AnnounceError(pid, field) # ""
       THEN Reject("announce_row4", AnnounceError(pid, field), -1)
       ELSE /\ announced_row4' = field
            /\ idle' = FALSE
            /\ results' = snapshot_results(finished, results, players,
                                           scoreboards, scoreboards_by_team)
            /\ reply' = Snapshot("announce_row4")
            /\ UNCHANGED <<mode, rolled_since, ended, moved, spent, players, started, finished,
                           aborted, turn, dice, holds, rolls_used, rolls_max, scoreboards,
                           scoreboards_by_team, correction, last_write, last_dice, last_meta,
                           logged, latest_cell>>

UnannounceError(pid) ==
    IF ~TurnIs(pid) THEN "not_your_turn"
    ELSE IF correction.active THEN "correction_active"
    ELSE IF rolls_used # 1 THEN "announce_window"
    ELSE IF announced_row4 = NoField THEN "no_announcement"
    ELSE ""

UnannounceRow4(pid) ==
    /\ ~TimedOut
    /\ IF UnannounceError(pid) # ""
       THEN Reject("unannounce_row4", UnannounceError(pid), -1)
       ELSE /\ announced_row4' = NoField
            /\ idle' = FALSE
            /\ results' = snapshot_results(finished, results, players,
                                           scoreboards, scoreboards_by_team)
            /\ reply' = Snapshot("unannounce_row4")
            /\ UNCHANGED <<mode, rolled_since, ended, moved, spent, players, started, finished,
                           aborted, turn, dice, holds, rolls_used, rolls_max, scoreboards,
                           scoreboards_by_team, correction, last_write, last_dice, last_meta,
                           logged, latest_cell>>


(***************************************************************************)
(* write_field                                                             *)
(***************************************************************************)
\* write_field as it would be without the look at the target cell
WriteFieldVerdictNoOccupancy(pid, row, col) ==
    IF ~TurnIs(pid) THEN Verdict(FALSE, "not_your_turn", -1)
    ELSE IF correction.active THEN Verdict(FALSE, "correction_active", -1)
    ELSE IF col \notin Cols THEN Verdict(FALSE, "invalid_column", -1)
    ELSE IF row \notin DOMAIN WRITABLE_MAP THEN Verdict(FALSE, "not_writable", -1)
    ELSE LET can == can_write_now(pid, row, col, announced_row4)
         IN IF ~can.ok THEN can ELSE Verdict(TRUE, "", -1)

\* the error write_field answers with, ok if it goes on to write
WriteFieldVerdict(pid, row, col) ==
    IF ~TurnIs(pid) THEN Verdict(FALSE, "not_your_turn", -1)
    ELSE IF correction.active THEN Verdict(FALSE, "correction_active", -1)
    ELSE IF col \notin Cols THEN Verdict(FALSE, "invalid_column", -1)
    ELSE IF row \notin DOMAIN WRITABLE_MAP THEN Verdict(FALSE, "not_writable", -1)
    ELSE LET can == can_write_now(pid, row, col, announced_row4)
         IN IF ~can.ok THEN can
            ELSE IF <<row, col>> \in DOMAIN TargetBoard(pid)
                 THEN Verdict(FALSE, "cell_filled", -1)
            ELSE Verdict(TRUE, "", -1)

\* allowed_points as it would be without the timing rule
poker_points_untimed(col, d, roll_idx, first4, announced_poker) == TRUE

\* allowed_points of write_field: may a poker written now carry points
poker_allowed_points(col, d, roll_idx, first4, announced_poker) ==
    LET has4 == has_n_of_a_kind(d, 4)
        has5 == has_n_of_a_kind(d, 5)
        first4_eff == IF has4 /\ ~has5 /\ first4 = None THEN roll_idx ELSE first4
        timed == has5 \/ (has4 /\ first4_eff # 0 /\ roll_idx = first4_eff)
    IN IF col = "ang"
       THEN (announced_poker /\ (has4 \/ has5)) \/ (~announced_poker /\ timed)
       ELSE timed

\* the value write_field stores
write_value(row, col, strike) ==
    LET fld == WRITABLE_MAP[row]
        silent == /\ fld = "poker"
                  /\ score_field_value("poker", dice) > 0
                  /\ ~poker_allowed_points(col, dice, turn.roll_index,
                                           turn.first4oak_roll, announced_row4 = "poker")
    IN IF strike \/ silent THEN 0 ELSE score_field_value(fld, dice)

\* write_field from the write of the cell to the end of the turn
WriteCommit(pid, row, col, strike) ==
    LET key == <<row, col>>
        b == WriteCell(scoreboards, scoreboards_by_team, pid, key,
                       write_value(row, col, strike))
        nxt == next_turn(players, pid)
        fin == is_game_finished(players, b[1], b[2])
    IN /\ scoreboards' = b[1]
       /\ scoreboards_by_team' = b[2]
       /\ rolled_since' = rolled_since \ {pid}
       /\ latest_cell' = Put(latest_cell, pid, key)
       /\ last_write' = Put(last_write, pid,
                            [row |-> row, col |-> col, rolls_used |-> rolls_used])
       /\ last_dice' = Put(last_dice, pid, dice)
       /\ last_meta' = Put(last_meta, pid,
                           [announced |-> announced_row4,
                            roll_index |-> turn.roll_index,
                            first4oak_roll |-> turn.first4oak_roll])
       /\ dice' = ZeroDice
       /\ holds' = NoHolds
       /\ rolls_used' = 0
       /\ announced_row4' = NoField
       /\ turn' = [player_id |-> nxt, roll_index |-> 0, first4oak_roll |-> None]
       /\ rolls_max' = roll_cap_for(b[1], b[2], nxt)
       /\ started' = (started /\ ~fin)
       /\ finished' = (finished \/ fin)
       /\ logged' = IF fin /\ logged < MaxLogged THEN logged + 1 ELSE logged
       /\ idle' = FALSE
       /\ results' = snapshot_results(finished \/ fin, results, players, b[1], b[2])
       /\ reply' = Snapshot("write_field")
       /\ UNCHANGED <<mode, ended, moved, spent, players, aborted, correction>>

WriteField(pid, row, col, strike) ==
    /\ ~TimedOut
    /\ LET verdict == WriteFieldVerdict(pid, row, col) IN
       IF ~verdict.ok
       THEN Reject("write_field", verdict.why, verdict.arg)
       ELSE WriteCommit(pid, row, col, strike)

(***************************************************************************)
(* compute_suggestions: the candidate buttons of a snapshot                *)
(***************************************************************************)
\* allowed_points of any_col_eligible as it would be without the timing rule
suggestion_points_untimed(col, d, roll_idx, first4, announced_poker) == TRUE

\* allowed_points of any_col_eligible: may a poker suggested now carry points
suggestion_allowed_points(col, d, roll_idx, first4, announced_poker) ==
    LET has4 == has_n_of_a_kind(d, 4)
        has5 == has_n_of_a_kind(d, 5)
        first4_eff == IF has4 /\ ~has5 /\ first4 = None THEN roll_idx ELSE first4
        timed == has5 \/ (has4 /\ first4_eff # 0 /\ roll_idx = first4_eff)
    IN IF col = "ang"
       THEN (announced_poker /\ (has4 \/ has5)) \/ (~announced_poker /\ timed)
       ELSE timed

\* any_col_eligible(row, field_key, points) for the actor pid
any_col_eligible(pid, row, field_key, points) ==
    \E col \in Cols :
        /\ <<row, col>> \notin DOMAIN TargetBoard(pid)
        /\ can_write_now(pid, row, col, announced_row4).ok
        /\ (field_key = "poker" /\ points > 0) =>
               suggestion_allowed_points(col, dice, turn.roll_index, turn.first4oak_roll,
                                         announced_row4 = "poker")

\* the field keys of MAPPING, in the order of the sort at the end
MAPPING == <<"poker", "60", "full", "kenter", "max", "min">>

\* does compute_suggestions append a button for the field key
Suggested(key) ==
    LET points == score_field_value(key, dice)
    IN /\ CASE key = "max" -> points >= 25
             [] key = "min" -> points <= 9
             [] OTHER -> points > 0
       /\ any_col_eligible(turn.player_id, KEY_TO_ROW[key], key, points)

\* compute_suggestions(g): field key and points of every button
compute_suggestions ==
    IF turn.player_id = None \/ rolls_used <= 0 THEN <<>>
    ELSE LET button(i) == [key |-> MAPPING[i], points |-> score_field_value(MAPPING[i], dice)]
             RECURSIVE From(_)
             From(i) == IF i > Len(MAPPING) THEN <<>>
                        ELSE IF Suggested(MAPPING[i]) THEN <<button(i)>> \o From(i + 1)
                        ELSE From(i + 1)
         IN From(1)

(***************************************************************************)
(* request_correction, cancel_correction                                   *)
(***************************************************************************)
\* the checks of request_correction as they would be without the look at _rolls_used
RequestCorrectionErrorAnyRoll(pid) ==
    IF pid \notin DOMAIN last_write THEN "no_last_entry"
    ELSE IF last_meta[pid].announced # NoField THEN "announced_move"
    ELSE IF turn = NoTurn THEN "only_after_your_turn"
    ELSE IF turn.player_id = pid THEN "only_after_your_turn"
    ELSE ""

RequestCorrectionError(pid) ==
    IF pid \notin DOMAIN last_write THEN "no_last_entry"
    ELSE IF last_meta[pid].announced # NoField THEN "announced_move"
    ELSE IF turn = NoTurn THEN "only_after_your_turn"
    ELSE IF turn.player_id = pid THEN "only_after_your_turn"
    ELSE IF rolls_used > 0 THEN "rolled_since"
    ELSE ""

RequestCorrection(pid) ==
    /\ ~TimedOut
    /\ IF correction.active THEN Drop("request_correction")
       ELSE IF RequestCorrectionError(pid) # ""
       THEN Reject("request_correction", RequestCorrectionError(pid), -1)
       ELSE /\ spent < MaxEvents
            /\ spent' = spent + 1
            /\ correction' = [active |-> TRUE, player_id |-> pid, dice |-> last_dice[pid],
                              roll_index |-> last_meta[pid].roll_index,
                              first4oak_roll |-> last_meta[pid].first4oak_roll]
            /\ dice' = last_dice[pid]
            /\ idle' = FALSE
            /\ results' = snapshot_results(finished, results, players,
                                           scoreboards, scoreboards_by_team)
            /\ reply' = Snapshot("request_correction")
            /\ UNCHANGED <<mode, rolled_since, ended, moved, players, started, finished,
                           aborted, turn, holds, rolls_used, rolls_max, scoreboards,
                           scoreboards_by_team, announced_row4, last_write, last_dice,
                           last_meta, logged, latest_cell>>

CancelCorrection ==
    /\ ~TimedOut
    /\ correction' = NoCorrection
    /\ dice' = ZeroDice
    /\ idle' = FALSE
    /\ results' = snapshot_results(finished, results, players, scoreboards, scoreboards_by_team)
    /\ reply' = Snapshot("cancel_correction")
    /\ UNCHANGED <<mode, rolled_since, ended, moved, spent, players, started, finished, aborted,
                   turn, holds, rolls_used, rolls_max, scoreboards, scoreboards_by_team,
                   announced_row4, last_write, last_dice, last_meta, logged, latest_cell>>

(***************************************************************************)
(* write_field_correction                                                  *)
(***************************************************************************)
\* errors answered before anything is touched
CorrectionEarlyError(pid, row, col) ==
    IF ~correction.active \/ correction.player_id # pid THEN "no_correction_active"
    ELSE IF col \notin Cols THEN "invalid_column"
    ELSE IF row \notin DOMAIN WRITABLE_MAP THEN "not_writable"
    ELSE IF pid \notin DOMAIN last_write THEN "no_last_entry"
    ELSE ""

\* errors answered after old_board.pop(old_key, None), judged on the board b
CorrectionLateVerdict(b, pid, row, col) ==
    LET filled == {c[1] : c \in {k \in DOMAIN b : k[2] = col}}
        next_row == next_required_row(col, filled)
        same == row = last_write[pid].row /\ col = last_write[pid].col
    IN IF col \in {"down", "up"} /\ next_row = -1 THEN Verdict(FALSE, "column_full", -1)
       ELSE IF col \in {"down", "up"} /\ row # next_row /\ ~same
            THEN Verdict(FALSE, "next_required", next_row)
       ELSE IF <<row, col>> \in DOMAIN b THEN Verdict(FALSE, "target_filled", -1)
       ELSE Verdict(TRUE, "", -1)

\* allowed_points as it would be if the correction read the live turn instead of
\* the values frozen with the corrected move
correction_points_live(col, d, corr_roll_idx, corr_first4, announced_poker) ==
    poker_allowed_points(col, d, turn.roll_index, turn.first4oak_roll, announced_poker)

\* allowed_points as it would be if the correction applied the rule of write_field
\* to the frozen roll index
correction_points_strict(col, d, corr_roll_idx, corr_first4, announced_poker) ==
    poker_allowed_points(col, d, corr_roll_idx, corr_first4, announced_poker)

\* allowed_points of write_field_correction, on the frozen dice and meta values
correction_allowed_points(col, d, corr_roll_idx, corr_first4, announced_poker) ==
    LET has4 == has_n_of_a_kind(d, 4)
        has5 == has_n_of_a_kind(d, 5)
        first4_eff == IF has4 /\ ~has5 /\ corr_first4 = None THEN corr_roll_idx
                      ELSE corr_first4
        effective_roll_idx == IF first4_eff # 0 THEN first4_eff ELSE corr_roll_idx
    IN IF col = "ang" /\ announced_poker
       THEN has4 \/ has5
       ELSE has5 \/ (has4 /\ first4_eff # 0 /\ effective_roll_idx = first4_eff)

\* the value write_field_correction stores
correction_value(row, col, strike) ==
    LET fld == WRITABLE_MAP[row]
        silent == /\ fld = "poker"
                  /\ score_field_value("poker", correction.dice) > 0
                  /\ ~correction_allowed_points(col, correction.dice, correction.roll_index,
                                                correction.first4oak_roll,
                                                announced_row4 = "poker")
    IN IF strike \/ silent THEN 0 ELSE score_field_value(fld, correction.dice)

WriteFieldCorrection(pid, row, col, strike) ==
    /\ ~TimedOut
    /\ IF CorrectionEarlyError(pid, row, col) # ""
       THEN Reject("write_field_correction", CorrectionEarlyError(pid, row, col), -1)
       ELSE LET old_key == <<last_write[pid].row, last_write[pid].col>>
                popped == PopCell(scoreboards, scoreboards_by_team, pid, old_key)
                late == CorrectionLateVerdict(BoardIn(popped[1], popped[2], pid),
                                              pid, row, col)
                b == WriteCell(popped[1], popped[2], pid, <<row, col>>,
                               correction_value(row, col, strike))
                cw == [q \in DOMAIN latest_cell |->
                         IF WriterKey(q) = WriterKey(pid) /\ latest_cell[q] = old_key
                         THEN NoCell ELSE latest_cell[q]]
            IN IF ~late.ok
               THEN /\ scoreboards' = popped[1]
                    /\ scoreboards_by_team' = popped[2]
                    /\ latest_cell' = cw
                    /\ reply' = Reply("error", "write_field_correction", late.why)
                    /\ UNCHANGED <<mode, rolled_since, ended, moved, spent, players, started,
                                   finished, aborted, results, turn, dice, holds, rolls_used,
                                   rolls_max, announced_row4, correction, last_write, last_dice,
                                   last_meta, idle, logged>>
               ELSE /\ scoreboards' = b[1]
                    /\ scoreboards_by_team' = b[2]
                    /\ latest_cell' = Put(cw, pid, <<row, col>>)
                    /\ moved' = [player_id |-> pid, from |-> old_key]
                    /\ last_write' = Put(last_write, pid,
                                         [row |-> row, col |-> col,
                                          rolls_used |-> last_write[pid].rolls_used])
                    /\ correction' = NoCorrection
                    /\ dice' = ZeroDice
                    /\ idle' = FALSE
                    /\ results' = snapshot_results(finished, results, players, b[1], b[2])
                    /\ reply' = Snapshot("write_field_correction")
                    /\ UNCHANGED <<mode, rolled_since, ended, spent, players, started, finished,
                                   aborted, turn, holds, rolls_used, rolls_max, announced_row4,
                                   last_dice, last_meta, logged>>


(***************************************************************************)
(* end_game, the inactivity timeout, snapshots outside the actions         *)
(***************************************************************************)
EndGame ==
    /\ ~TimedOut
    /\ spent < MaxEvents
    /\ spent' = spent + 1
    /\ aborted' = TRUE
    /\ ended' = TRUE
    /\ started' = FALSE
    /\ finished' = TRUE
    /\ idle' = FALSE
    /\ results' = snapshot_results(TRUE, <<>>, players, scoreboards, scoreboards_by_team)
    /\ reply' = Snapshot("end_game")
    /\ UNCHANGED <<mode, rolled_since, moved, players, turn, dice, holds, rolls_used, rolls_max,
                   scoreboards, scoreboards_by_team, announced_row4, correction, last_write,
                   last_dice, last_meta, logged, latest_cell>>

\* the inactivity window passes without any touch(g)
TimePasses ==
    /\ ~idle
    /\ spent < MaxEvents
    /\ spent' = spent + 1
    /\ idle' = TRUE
    /\ reply' = Reply("none", "time", "")
    /\ UNCHANGED <<mode, rolled_since, ended, moved, players, started, finished, aborted,
                   results, turn, dice, holds, rolls_used, rolls_max, scoreboards,
                   scoreboards_by_team, announced_row4, correction, last_write, last_dice,
                   last_meta, logged, latest_cell>>

\* any inbound action on a timed-out room: check_timeout_and_abort(g) returns True,
\* the snapshot is broadcast and the action itself is skipped
InboundTimeout ==
    /\ TimedOut
    /\ aborted' = TRUE
    /\ started' = FALSE
    /\ finished' = TRUE
    /\ results' = snapshot_results(TRUE, <<>>, players, scoreboards, scoreboards_by_team)
    /\ reply' = Snapshot("timeout")
    /\ UNCHANGED <<mode, rolled_since, ended, moved, spent, players, turn, dice, holds,
                   rolls_used, rolls_max, scoreboards, scoreboards_by_team, announced_row4,
                   correction, last_write, last_dice, last_meta, idle, logged, latest_cell>>

\* sweep_timeouts() of the listing routes: the abort without any snapshot
SweepTimeouts ==
    /\ TimedOut
    /\ aborted' = TRUE
    /\ started' = FALSE
    /\ finished' = TRUE
    /\ results' = <<>>
    /\ reply' = Reply("none", "sweep", "")
    /\ UNCHANGED <<mode, rolled_since, ended, moved, spent, players, turn, dice, holds,
                   rolls_used, rolls_max, scoreboards, scoreboards_by_team, announced_row4,
                   correction, last_write, last_dice, last_meta, idle, logged, latest_cell>>

\* a new connection: ws_game sends snapshot(g) before it reads any action
Connect ==
    /\ aborted' = (aborted \/ TimedOut)
    /\ started' = (started /\ ~TimedOut)
    /\ finished' = (finished \/ TimedOut)
    /\ results' = snapshot_results(finished \/ TimedOut, IF TimedOut THEN <<>> ELSE results,
                                   players, scoreboards, scoreboards_by_team)
    /\ reply' = Snapshot("connect")
    /\ UNCHANGED <<mode, rolled_since, ended, moved, spent, players, turn, dice, holds,
                   rolls_used, rolls_max, scoreboards, scoreboards_by_team, announced_row4,
                   correction, last_write, last_dice, last_meta, idle, logged, latest_cell>>

(***************************************************************************)
(* The room.                                                               *)
(***************************************************************************)
\* write_field messages <<player, cell, strike>>: every cell from the player on turn;
\* from the others, who are turned away before the cell is looked at, one cell
WriteInputs ==
    {i \in Actors \X CellInputs \X BOOLEAN :
        TurnIs(i[1]) \/ (i[2] = <<14, "free">> /\ ~i[3])}

\* write_field_correction messages: every cell from the requester of the active
\* correction; from the others, who are turned away first, one cell
CorrectionInputs ==
    {i \in Actors \X CellInputs \X BOOLEAN :
        (correction.active /\ correction.player_id = i[1]) \/ (i[2] = <<14, "free">> /\ ~i[3])}

\* what the handlers of the room never touch
apart == <<conns, scored>>

Next ==
    \/ JoinGame /\ UNCHANGED apart
    \/ RejoinGame /\ UNCHANGED apart
    \/ ChatMessage /\ UNCHANGED apart
    \/ \E h \in HoldInputs : SetHold(h) /\ UNCHANGED apart
    \/ \E pid \in Actors, o \in RollOutcomes : RollDice(pid, o) /\ UNCHANGED apart
    \/ \E pid \in Actors : RollDiceCooldown(pid) /\ UNCHANGED apart
    \/ \E pid \in Actors, f \in AnnounceInputs : AnnounceRow4(pid, f) /\ UNCHANGED apart
    \/ \E pid \in Actors : UnannounceRow4(pid) /\ UNCHANGED apart
    \/ \E i \in WriteInputs : WriteField(i[1], i[2][1], i[2][2], i[3]) /\ UNCHANGED apart
    \/ \E pid \in Actors : RequestCorrection(pid) /\ UNCHANGED apart
    \/ CancelCorrection /\ UNCHANGED apart
    \/ \E i \in CorrectionInputs : WriteFieldCorrection(i[1], i[2][1], i[2][2], i[3])
          /\ UNCHANGED apart
    \/ EndGame /\ UNCHANGED apart
    \/ TimePasses /\ UNCHANGED apart
    \/ InboundTimeout /\ UNCHANGED apart
    \/ SweepTimeouts /\ UNCHANGED apart
    \/ Connect /\ UNCHANGED apart

(***************************************************************************)
(* write_field followed from await to await.  A ws_game coroutine gives up *)
(* the event loop only in receive_json, in send_json and in broadcast; the *)
(* checks of write_field and its writes lie between two such points.       *)
(***************************************************************************)
\* write_field as it would be with an await between its checks and its writes
HandlerYieldsAfterChecks == TRUE

\* does write_field give up the event loop between its checks and its writes
HandlerYields == FALSE

\* the event loop can resume coroutine c: no other coroutine is in the middle of a
\* stretch of code without await
MayRun(c) == \A o \in Conns \ {c} : conns[o].pc = "checked" => HandlerYields

\* data = await websocket.receive_json() returns a write_field message
Receive(c) ==
    /\ conns[c].pc = "idle"
    /\ MayRun(c)
    /\ \E cell \in CellInputs, strike \in BOOLEAN :
          conns' = [conns EXCEPT ![c].pc = "received", ![c].row = cell[1],
                                 ![c].col = cell[2], ![c].strike = strike]
    /\ UNCHANGED <<room, reply>>

\* the checks of write_field up to the look at the target cell
Check(c) ==
    /\ conns[c].pc = "received"
    /\ MayRun(c)
    /\ ~TimedOut
    /\ LET verdict == WriteFieldVerdict(conns[c].seat, conns[c].row, conns[c].col) IN
       IF ~verdict.ok
       THEN /\ Reject("write_field", verdict.why, verdict.arg)
            /\ conns' = [conns EXCEPT ![c].pc = "sending", ![c].ok = "rejected"]
       ELSE /\ conns' = [conns EXCEPT ![c].pc = "checked"]
            /\ UNCHANGED <<room, reply>>

\* the writes of write_field up to its broadcast
Commit(c) ==
    /\ conns[c].pc = "checked"
    /\ MayRun(c)
    /\ WriteCommit(conns[c].seat, conns[c].row, conns[c].col, conns[c].strike)
    /\ conns' = [conns EXCEPT ![c].pc = "sending", ![c].ok = "accepted"]

\* await websocket.send_json(...) / await broadcast(...) has returned
Sent(c) ==
    /\ conns[c].pc = "sending"
    /\ MayRun(c)
    /\ conns' = [conns EXCEPT ![c].pc = "done"]
    /\ UNCHANGED <<room, reply>>

NextWrites ==
    \/ \E c \in Conns : Receive(c) /\ UNCHANGED scored
    \/ \E c \in Conns : Check(c) /\ UNCHANGED scored
    \/ \E c \in Conns : Commit(c) /\ UNCHANGED scored
    \/ \E c \in Conns : Sent(c) /\ UNCHANGED scored

(***************************************************************************)
(* The scoring functions on their own: a hand of five dice is scored for   *)
(* one of the twelve fields by score_field_value of main.py and by         *)
(* score_field of rules.py.                                                *)
(***************************************************************************)
\* the faces of a die
Faces == 1..6

\* dice: five values of 1..6
Hands == [DicePos -> Faces]

\* poker_allowed is looked at for "poker" only
AllowedInputs(f) == IF f = "poker" THEN BOOLEAN ELSE {TRUE}

ScoreHand(f, allowed) ==
    /\ scored.field = NoField
    /\ scored' = [scored EXCEPT !.field = f, !.poker_allowed = allowed,
                                !.value = score_field_value(f, scored.hand),
                                !.by_rules = score_field(f, scored.hand, allowed)]
    /\ UNCHANGED <<room, conns, reply>>

NextScore == \E f \in Fields : \E allowed \in AllowedInputs(f) : ScoreHand(f, allowed)

(***************************************************************************)
(* Rooms late in a game.  Exploring a game from new_game takes 48 writes   *)
(* per board, so the room is taken at the start of a turn of its last      *)
(* rounds: the players of 1..n have joined, every cell outside the layout  *)
(* is filled (struck, value 0), the players before the one whose turn it   *)
(* is have written once more than the others, and every player's last      *)
(* write is on record.                                                     *)
(***************************************************************************)
\* the cell of a player's last write before the room is taken
LastCellOf(pid) == IF pid \in {1, 4} THEN <<14, "down">> ELSE <<13, "free">>

\* dice of that write: four of a kind since the first roll, the cell struck or worth 0
LastDiceOf(pid) == <<1, 1, 1, 2, 1>>

\* roll of that write: the first player wrote after one roll, the others after two
LastRollOf(pid) == IF pid = 1 THEN 1 ELSE 2

FilledBoard(open) == [c \in AllCells \ open |-> 0]

SeqOfIds(n) == [i \in 1..n |-> i]

ExpectedOf(m) == IF m = "2v2" THEN 4 ELSE IF m = "3" THEN 3 ELSE 2

\* the cells open on the board player pid writes to, when it is t's turn
OpenFor(m, t, layout, pid) ==
    LET slot == IF m = "2v2" THEN ((pid - 1) % 2) + 1 ELSE pid
        turnslot == IF m = "2v2" THEN ((t - 1) % 2) + 1 ELSE t
        done == IF slot < turnslot THEN 1 ELSE 0
    IN RowSet(SubSeq(layout, done + 1, Len(layout)))

\* the room of late_game k rolls into the turn: the dice show d, the four of a kind
\* was first seen in roll f4 (None if not yet), last[pid] is the cell of the last
\* write of player pid, and player req (None if nobody) has requested a correction
late_room(m, t, layout, last, k, d, f4, req) ==
    LET n == ExpectedOf(m)
        prev == IF t = 1 THEN n ELSE t - 1
    IN /\ mode = m
       /\ ended = FALSE
       /\ rolled_since = IF k = 0 THEN (1..n) \ {prev} ELSE 1..n
       /\ players = SeqOfIds(n)
       /\ started = TRUE
       /\ finished = FALSE
       /\ aborted = FALSE
       /\ results = <<>>
       /\ turn = [player_id |-> t, roll_index |-> k, first4oak_roll |-> f4]
       /\ dice = d
       /\ holds = NoHolds
       /\ rolls_used = k
       /\ rolls_max = IF Cardinality(OpenFor(m, t, layout, t)) = 1 THEN 5 ELSE 3
       /\ scoreboards =
            [pid \in 1..n |->
                IF m = "2v2" THEN EmptyBoard ELSE FilledBoard(OpenFor(m, t, layout, pid))]
       /\ scoreboards_by_team =
            IF m = "2v2"
            THEN [tid \in {"A", "B"} |->
                    FilledBoard(OpenFor(m, t, layout, IF tid = "A" THEN 1 ELSE 2))]
            ELSE EmptyMap
       /\ latest_cell = [pid \in 1..n |-> last[pid]]
       /\ announced_row4 = NoField
       /\ correction =
            IF req = None THEN NoCorrection
            ELSE [active |-> TRUE, player_id |-> req, dice |-> LastDiceOf(req),
                  roll_index |-> LastRollOf(req), first4oak_roll |-> 1]
       /\ last_write = [pid \in 1..n |->
                          [row |-> last[pid][1], col |-> last[pid][2],
                           rolls_used |-> LastRollOf(pid)]]
       /\ last_dice = [pid \in 1..n |-> LastDiceOf(pid)]
       /\ last_meta = [pid \in 1..n |->
                          [announced |-> NoField, roll_index |-> LastRollOf(pid),
                           first4oak_roll |-> 1]]
       /\ idle = FALSE
       /\ logged = 0
       /\ moved = NoMove
       /\ reply = Reply("none", "", "")

late_game(m, t, layout) ==
    /\ late_room(m, t, layout, [pid \in 1..4 |-> LastCellOf(pid)], 0, ZeroDice, None, None)
    /\ spent = 0
    /\ conns = NoConns
    /\ scored = NoScore

\* the rooms explored: mode, the player whose turn it is, and the cells still open
\* in the order the players behind would fill them
InitRooms ==
    {<<"2", 1, <<<<14, "free">>>>>>, <<"2", 2, <<<<14, "ang">>>>>>,
     <<"3", 3, <<<<14, "free">>>>>>, <<"2v2", 3, <<<<14, "free">>>>>>}

Init == \E r \in InitRooms : late_game(r[1], r[2], r[3])

\* a two-player room in which the player on turn still has two cells open
InitTwoCells == late_game("2", 2, <<<<15, "down">>, <<14, "free">>>>)

\* a two-player room one roll into a turn with a cap of three rolls
InitMidTurn ==
    /\ late_room("2", 2, <<<<15, "down">>, <<14, "free">>>>,
                 [pid \in 1..4 |-> LastCellOf(pid)], 1, <<1, 1, 1, 2, 2>>, None,
                 None)
    /\ spent = 0
    /\ conns = NoConns
    /\ scored = NoScore

\* a 2v2 room in which the third player has just filled the board of its team with
\* a write in the announced column (no announcement made) and has requested its
\* correction before the fourth player rolls
InitAnnounced ==
    /\ late_room("2v2", 4, <<<<14, "free">>>>,
                 [pid \in 1..4 |-> IF pid = 3 THEN <<14, "ang">> ELSE LastCellOf(pid)],
                 0, LastDiceOf(3), None, 3)
    /\ spent = 0
    /\ conns = NoConns
    /\ scored = NoScore

\* a two-player room one roll into a turn of a player who still has three cells open,
\* two of them in the announced column
InitAngOpen ==
    /\ late_room("2", 2, <<<<14, "ang">>, <<15, "ang">>, <<14, "free">>>>,
                 [pid \in 1..4 |-> LastCellOf(pid)], 1, <<1, 1, 1, 2, 2>>, None,
                 None)
    /\ spent = 0
    /\ conns = NoConns
    /\ scored = NoScore

\* a two-player room that nobody has joined or touched for the inactivity window
InitLobby == unjoined_room("2", TRUE) /\ scored = NoScore

\* the room of InitMidTurn with MaxConns connections of the player on turn, each about
\* to receive one write_field message
InitWrites ==
    /\ late_room("2", 2, <<<<15, "down">>, <<14, "free">>>>,
                 [pid \in 1..4 |-> LastCellOf(pid)], 1, <<1, 1, 1, 2, 2>>, None,
                 None)
    /\ spent = 0
    /\ conns = [c \in Conns |-> ConnOf(2)]
    /\ scored = NoScore

\* a two-player room one roll into a turn of a player whose last two open cells are
\* both in the announced column
InitAngOnly ==
    /\ late_room("2", 2, <<<<14, "ang">>, <<15, "ang">>>>,
                 [pid \in 1..4 |-> LastCellOf(pid)], 1, <<1, 1, 1, 2, 2>>, None,
                 None)
    /\ spent = 0
    /\ conns = NoConns
    /\ scored = NoScore

\* what the first roll of the turn of InitSuggest may have shown
SuggestHands ==
    {<<6, 6, 6, 6, 1>>, <<6, 6, 6, 5, 1>>, <<1, 1, 1, 2, 2>>, <<1, 2, 2, 2, 2>>,
     <<2, 2, 2, 2, 2>>, <<1, 2, 3, 4, 5>>}

\* a two-player room one roll into the turn of the first player, both boards with
\* seven cells open: max, min, kenter, poker and 60 in the free column, full and
\* poker in the announced column
InitSuggest ==
    /\ \E d \in SuggestHands :
          late_room("2", 1,
                    <<<<9, "free">>, <<10, "free">>, <<12, "free">>, <<13, "ang">>,
                      <<14, "free">>, <<14, "ang">>, <<15, "free">>>>,
                    [pid \in 1..4 |-> LastCellOf(pid)], 1, d,
                    first4oak_after(None, d, 1), None)
    /\ spent = 1
    /\ conns = NoConns
    /\ scored = NoScore

\* a hand about to be scored, in a room nobody has joined
InitScore == unjoined_room("2", FALSE) /\ scored \in {[NoScore EXCEPT !.hand = h] : h \in Hands}

Spec == Init /\ [][Next]_vars
SpecScore == InitScore /\ [][NextScore]_vars
SpecSuggest == InitSuggest /\ [][Next]_vars
SpecAngOnly == InitAngOnly /\ [][Next]_vars
SpecWrites == InitWrites /\ [][NextWrites]_vars
SpecLobby == InitLobby /\ [][Next]_vars
SpecAngOpen == InitAngOpen /\ [][Next]_vars

SpecMidTurn == InitMidTurn /\ [][Next]_vars

SpecAnnounced == InitAnnounced /\ [][Next]_vars

SpecTwoCells == InitTwoCells /\ [][Next]_vars

(***************************************************************************)
(* Properties.                                                             *)
(***************************************************************************)
\* every filled cell of every board is still there with its value after the step
KeepsFilledCells ==
    /\ \/ scoreboards' = scoreboards
       \/ \A id \in DOMAIN scoreboards : \A k \in DOMAIN scoreboards[id] :
             k \in DOMAIN scoreboards'[id] /\ scoreboards'[id][k] = scoreboards[id][k]
    /\ \/ scoreboards_by_team' = scoreboards_by_team
       \/ \A id \in DOMAIN scoreboards_by_team : \A k \in DOMAIN scoreboards_by_team[id] :
             /\ k \in DOMAIN scoreboards_by_team'[id]
             /\ scoreboards_by_team'[id][k] = scoreboards_by_team[id][k]

\* C1: an accepted write_field fills one cell that was empty on the actor's target
\* board, so a write_field for a filled cell is never accepted; its error leaves the
\* room as it was; and no step other than a write_field_correction removes or
\* changes a filled cell.
C1_FilledCellOnlyChangedByCorrection ==
    [][/\ reply'.act # "write_field_correction" => KeepsFilledCells
       /\ (reply'.act = "write_field" /\ reply'.kind = "snapshot") =>
             Cardinality(DOMAIN BoardIn(scoreboards', scoreboards_by_team', turn.player_id))
               = Cardinality(DOMAIN TargetBoard(turn.player_id)) + 1
       /\ (reply'.act = "write_field" /\ reply'.kind = "error") => UNCHANGED room
      ]_vars

\* C1 happens: the player on turn has sent a write_field for a filled cell and got
\* the error back
C1_Witness ==
    /\ reply = Reply("error", "write_field", "cell_filled")
    /\ \E c \in CellInputs : c \in DOMAIN TargetBoard(turn.player_id)


\* the boards in use: the team boards in team mode, else the players' boards
BoardsInUse == IF is_team_mode THEN scoreboards_by_team ELSE scoreboards

\* the rows of column col filled on board b
FilledRows(b, col) == {k[1] : k \in {c \in DOMAIN b : c[2] = col}}

\* C2: on every board the filled cells of the down column are a prefix of the row
\* order and the filled cells of the up column are a suffix of it.
C2_ColumnOrder ==
    \A id \in DOMAIN BoardsInUse :
        /\ \E n \in 0..Len(WRITABLE_ROWS) :
              FilledRows(BoardsInUse[id], "down") = {WRITABLE_ROWS[i] : i \in 1..n}
        /\ \E n \in 0..Len(WRITABLE_ROWS) :
              FilledRows(BoardsInUse[id], "up")
                = {WRITABLE_ROWS[i] : i \in (Len(WRITABLE_ROWS) - n + 1)..Len(WRITABLE_ROWS)}


\* the step is a write_field_correction that got as far as old_board.pop(old_key, None)
CorrectionPops ==
    /\ reply'.act = "write_field_correction"
    /\ reply'.kind = "snapshot" \/ reply'.why \in {"column_full", "next_required", "target_filled"}

\* C3: the cell a write_field_correction removes from the requester's target board
\* holds the requester's own most recent write, not a write of another player
\* (a team-mate on the shared board) and not an earlier write of the requester.
C3_CorrectionRemovesOwnLatestWrite ==
    [][LET req == correction.player_id
           old_key == <<last_write[req].row, last_write[req].col>>
       IN (CorrectionPops /\ old_key \in DOMAIN TargetBoard(req))
             => latest_cell[req] = old_key
      ]_vars


\* at least n of the five dice d show the same face
EqualDice(d, n) == \E f \in 1..6 : Cardinality({i \in DicePos : d[i] = f}) >= n

\* the face that at least four of the dice d show
FaceOfFour(d) == CHOOSE f \in 1..6 : Cardinality({i \in DicePos : d[i] = f}) >= 4

\* the step is an accepted write_field (of the player on turn)
WriteAccepted == reply'.act = "write_field" /\ reply'.kind = "snapshot"

\* the reasons for which write_field answers with an error
WriteErrors ==
    {"not_your_turn", "correction_active", "invalid_column", "not_writable",
     "announce_only_ang", "announced_other_field", "no_announcement", "column_full",
     "next_required", "unknown_column", "cell_filled"}

\* C4: an accepted write_field of poker with four or more equal dice records
\* 50 + 4 x face or 0, and it records the points only with five of a kind, or when
\* the roll index equals first4oak_roll, or in the announced column under a poker
\* announcement; either way the turn ends, and no write_field is answered with an
\* error for the timing of the poker.
C4_PokerTiming ==
    [][/\ WriteAccepted =>
             LET pid == turn.player_id
                 row == last_write'[pid].row
                 col == last_write'[pid].col
                 val == BoardIn(scoreboards', scoreboards_by_team', pid)[<<row, col>>]
             IN (WRITABLE_MAP[row] = "poker" /\ EqualDice(dice, 4)) =>
                   /\ val \in {0, 50 + 4 * FaceOfFour(dice)}
                   /\ val > 0 =>
                         \/ EqualDice(dice, 5)
                         \/ turn.roll_index = turn.first4oak_roll
                         \/ col = "ang" /\ announced_row4 = "poker"
                   /\ turn'.player_id = next_turn(players, pid)
                   /\ rolls_used' = 0 /\ turn'.roll_index = 0
       /\ (reply'.act = "write_field" /\ reply'.kind = "error") => reply'.why \in WriteErrors
      ]_vars

\* C4 happens: a poker written in a later roll than the one that first showed the
\* four of a kind stands in the board with 0 and the turn has moved on
C4_Witness ==
    /\ reply = Snapshot("write_field")
    /\ \E pid \in DOMAIN last_write :
          /\ pid \in DOMAIN last_meta /\ pid \in DOMAIN last_dice
          /\ WRITABLE_MAP[last_write[pid].row] = "poker"
          /\ EqualDice(last_dice[pid], 4) /\ ~EqualDice(last_dice[pid], 5)
          /\ last_meta[pid].roll_index > last_meta[pid].first4oak_roll
          /\ last_meta[pid].first4oak_roll # None
          /\ last_meta[pid].announced = NoField
          /\ <<last_write[pid].row, last_write[pid].col>> \in DOMAIN TargetBoard(pid)
          /\ TargetBoard(pid)[<<last_write[pid].row, last_write[pid].col>>] = 0
          /\ turn.player_id = next_turn(players, pid)


\* C5: in a two-player room, when the corrected move was written after a first roll
\* that showed four of a kind and into another category than poker, a committed
\* write_field_correction into a poker cell (not sent as a strike) stores
\* 50 + 4 x face there and leaves the cell of the corrected move empty.
C5_CorrectionIntoPokerScores ==
    [][\A col \in Cols :
         LET req == correction.player_id
             old_key == <<last_write[req].row, last_write[req].col>>
             board == BoardIn(scoreboards', scoreboards_by_team', req)
         IN (/\ mode = "2" /\ correction.active
             /\ correction.roll_index = 1 /\ correction.first4oak_roll = 1
             /\ EqualDice(correction.dice, 4)
             /\ WRITABLE_MAP[last_write[req].row] # "poker"
             /\ WriteFieldCorrection(req, KEY_TO_ROW["poker"], col, FALSE)
             /\ reply'.kind = "snapshot")
            => /\ board[<<KEY_TO_ROW["poker"], col>>] = 50 + 4 * FaceOfFour(correction.dice)
               /\ old_key \notin DOMAIN board
      ]_vars

\* C5 happens: a move written after a first roll with four of a kind has been
\* corrected from another category into poker
C5_Witness ==
    /\ mode = "2"
    /\ reply = Snapshot("write_field_correction")
    /\ moved.player_id \in DOMAIN last_write
    /\ WRITABLE_MAP[moved.from[1]] # "poker"
    /\ WRITABLE_MAP[last_write[moved.player_id].row] = "poker"
    /\ last_meta[moved.player_id].roll_index = 1
    /\ last_meta[moved.player_id].first4oak_roll = 1
    /\ EqualDice(last_dice[moved.player_id], 4)
    /\ TargetBoard(moved.player_id)[<<last_write[moved.player_id].row,
                                      last_write[moved.player_id].col>>] > 0


\* the step is a committed write_field_correction
CorrectionCommitted == reply'.act = "write_field_correction" /\ reply'.kind = "snapshot"

AllBoardsFull ==
    IF is_team_mode
    THEN \A tid \in {"A", "B"} :
            /\ tid \in DOMAIN scoreboards_by_team
            /\ Cardinality(DOMAIN scoreboards_by_team[tid]) = WRITABLE_CELLS_PER_PLAYER
    ELSE \A pid \in PlayerIds :
            /\ pid \in DOMAIN scoreboards
            /\ Cardinality(DOMAIN scoreboards[pid]) = WRITABLE_CELLS_PER_PLAYER

\* C7: in a room that was never aborted, finished is true exactly when every board
\* in use holds all 48 entries.
C7_FinishedIffAllBoardsFull == ~aborted => (finished <=> AllBoardsFull)

\* C8: the result finalisation runs at most once per room.
C8_FinalisedAtMostOnce == logged <= 1


\* C9: once end_game has been handled the room is aborted and finished, its results
\* are empty in the state (and so in every snapshot taken of it), and no leaderboard
\* entry is logged, whatever action has just been handled.
C9_EndGameLeavesNoResults ==
    [][ended' => /\ aborted' /\ finished'
                 /\ results' = <<>>
                 /\ logged' = logged]_vars

\* what an action could have changed had it been applied
game_fields ==
    <<mode, players, turn, dice, holds, rolls_used, rolls_max, scoreboards, scoreboards_by_team,
      announced_row4, correction, last_write, last_dice, last_meta, logged>>

\* C10: when the inactivity window has elapsed on an unfinished room, the next access
\* marks the room aborted and finished, applies nothing of the triggering action, and
\* leaves the results empty, also after the snapshot that is broadcast.
C10_TimeoutAbortsWithEmptyResults ==
    [][TimedOut => /\ aborted' /\ finished' /\ ~started'
                   /\ UNCHANGED game_fields
                   /\ results' = <<>>]_vars


\* the step is a write_field_correction of the requester of the active correction
RequesterCorrects ==
    /\ correction.active
    /\ reply'.act = "write_field_correction"
    /\ reply'.why # "no_correction_active"

\* C11: once a write_field_correction of the requester has been handled, committed or
\* answered with an error, the correction is no longer active.
C11_CorrectionModeEnds == [][RequesterCorrects => ~correction'.active]_vars

\* C12: a write_field_correction that is answered with an error leaves every
\* scoreboard as it was, the cell of the corrected move included.
C12_RejectedCorrectionKeepsBoards ==
    [][(reply'.act = "write_field_correction" /\ reply'.kind = "error")
          => UNCHANGED <<scoreboards, scoreboards_by_team>>]_vars

\* the step is a roll_dice, announce_row4, unannounce_row4 or write_field answered
\* with an error
TurnActionRejected ==
    /\ reply'.kind = "error"
    /\ reply'.act \in {"roll_dice", "announce_row4", "unannounce_row4", "write_field"}

\* C13: a roll_dice, announce_row4, unannounce_row4 or write_field that is answered
\* with an error leaves scoreboards, dice, holds, rolls used, roll index,
\* first4oak_roll, announcement, turn owner and correction as they were.
C13_RejectedTurnActionChangesNothing ==
    [][TurnActionRejected =>
          UNCHANGED <<scoreboards, scoreboards_by_team, dice, holds, rolls_used, turn,
                      announced_row4, correction>>]_vars

\* C13 happens: the player on turn has used up the rolls of the turn and a further
\* roll_dice was answered with the error
C13_Witness ==
    /\ reply = Reply("error", "roll_dice", "no_rolls_left")
    /\ rolls_used = rolls_max
    /\ turn.roll_index = rolls_used

\* C14: a cell written while an announcement was active is final: as long as it is
\* the most recent write of its writer, no request_correction of the writer is
\* accepted, and no step removes the cell or changes its value.
C14_AnnouncedWriteIsFinal ==
    [][/\ (reply'.act = "request_correction" /\ reply'.kind = "snapshot") =>
             last_meta[correction'.player_id].announced = NoField
       /\ \A q \in DOMAIN last_meta :
             LET key == <<last_write[q].row, last_write[q].col>>
                 after == BoardIn(scoreboards', scoreboards_by_team', q)
             IN (/\ last_meta[q].announced # NoField
                 /\ key \in DOMAIN TargetBoard(q)
                 /\ last_write'[q] = last_write[q])
                => /\ key \in DOMAIN after
                   /\ after[key] = TargetBoard(q)[key]
      ]_vars

\* C15: request_correction by a player is rejected whenever a roll of any player
\* has been accepted since that player's last write, in every mode and also after
\* another player has completed a whole turn in between.
C15_NoRequestAfterRoll ==
    [][(/\ reply'.act = "request_correction"
        /\ reply'.kind = "snapshot"
        /\ ~correction.active)
          => correction'.player_id \notin rolled_since]_vars

TurnActions == {"roll_dice", "announce_row4", "unannounce_row4", "write_field"}

\* C16: while a correction is active every roll, announce, un_announce and normal
\* write, of any player, is answered with an error and changes neither the dice,
\* the roll count, the announcement, the scoreboards nor the turn owner.
C16_CorrectionSuspendsTurnActions ==
    [][(correction.active /\ reply'.act \in TurnActions)
          => /\ reply'.kind = "error"
             /\ correction'.active
             /\ UNCHANGED <<dice, rolls_used, announced_row4, scoreboards,
                            scoreboards_by_team, turn>>]_vars

\* the actor's roll has been refused because of the correction in progress
C16_Witness ==
    /\ correction.active
    /\ reply = Reply("error", "roll_dice", "correction_active")
    /\ rolls_used < rolls_max

\* C17: in a started room the rolls consumed in the current turn never exceed the
\* cap, and the cap in force is the one the present board of the current actor
\* prescribes: 5 if that board has exactly one empty cell, else 3.
C17_RollCapFollowsBoard ==
    (started /\ turn # NoTurn)
        => /\ rolls_used <= rolls_max
           /\ rolls_max = roll_cap_for(scoreboards, scoreboards_by_team, turn.player_id)

\* C18: an accepted roll changes only dice that are not held, adds exactly one to
\* rolls-used and to the roll index, and leaves scoreboards, holds, announcement,
\* turn owner and correction context alone; a roll sent by anyone but the current
\* actor is answered with an error and rolls nothing.
C18_RollFrame ==
    [][/\ (reply'.act = "roll_dice" /\ reply'.kind = "snapshot")
            => /\ \A i \in DicePos : holds[i] => dice'[i] = dice[i]
               /\ rolls_used' = rolls_used + 1
               /\ turn'.roll_index = turn.roll_index + 1
               /\ turn'.player_id = turn.player_id
               /\ UNCHANGED <<scoreboards, scoreboards_by_team, holds, announced_row4,
                              correction>>
       /\ \A pid \in Actors :
             (~TurnIs(pid) /\ RollDice(pid, dice'))
                => /\ reply'.kind = "error"
                   /\ UNCHANGED <<dice, rolls_used, turn>>
      ]_vars

\* the first roll of a turn made with the fifth die held: the die is still blank
C18_Witness ==
    /\ reply = Snapshot("roll_dice")
    /\ holds[5]
    /\ rolls_used = 1
    /\ dice[5] = 0
    /\ dice[1] = 1

\* C19: within a turn first4oak_roll is null until the first roll that shows four
\* or more equal dice, then holds that roll's index through every later roll of the
\* turn; it returns to null only when a write ends the turn, and while set it
\* is at least 1 and at most the current roll index.
C19_First4oakSetOnce ==
    [][/\ (reply'.act = "roll_dice" /\ reply'.kind = "snapshot")
            => turn'.first4oak_roll =
                  IF turn.first4oak_roll # None THEN turn.first4oak_roll
                  ELSE IF has_n_of_a_kind(dice', 4) THEN turn'.roll_index
                  ELSE None
       /\ (reply'.act # "roll_dice" /\ turn'.first4oak_roll # turn.first4oak_roll)
            => /\ turn'.first4oak_roll = None
               /\ reply' = Snapshot("write_field")
               /\ turn'.roll_index = 0
       /\ turn'.first4oak_roll # None
            => (1 <= turn'.first4oak_roll /\ turn'.first4oak_roll <= turn'.roll_index)
      ]_vars

\* two rolls into a turn whose first roll showed four equal dice and whose second
\* roll does not
C19_Witness ==
    /\ reply = Snapshot("roll_dice")
    /\ turn.roll_index = 2
    /\ turn.first4oak_roll = 1
    /\ ~has_n_of_a_kind(dice, 4)

\* the cell an announcement of field reserves on the board of the current actor
AnnouncedCellEmpty(field) ==
    <<KEY_TO_ROW[field], "ang">> \notin DOMAIN TargetBoard(turn.player_id)

\* C20: announce_row4 is accepted only when exactly one roll of the turn is consumed
\* and the announced-column cell of the field is empty on the actor's board; while
\* an announcement is active at least one roll is consumed and that cell is empty.
C20_AnnouncementWindow ==
    [][/\ reply' = Snapshot("announce_row4")
            => /\ rolls_used = 1
               /\ announced_row4' \in Fields
               /\ AnnouncedCellEmpty(announced_row4')
               /\ UNCHANGED <<turn, rolls_used>>
       /\ (reply'.act = "announce_row4" /\ rolls_used # 1)
            => (reply'.kind = "error" /\ UNCHANGED announced_row4)
       /\ announced_row4' # NoField
            => /\ rolls_used' >= 1
               /\ turn' # NoTurn
               /\ <<KEY_TO_ROW[announced_row4'], "ang">>
                     \notin DOMAIN BoardIn(scoreboards', scoreboards_by_team',
                                           turn'.player_id)
      ]_vars

\* an announcement made after the first roll is still active after the second
C20_Witness ==
    /\ announced_row4 # NoField
    /\ rolls_used = 2
    /\ AnnouncedCellEmpty(announced_row4)

\* the current turn stands under an announcement and its board has cells to spare
AnnouncedWithCellsToSpare ==
    /\ announced_row4 # NoField
    /\ turn # NoTurn
    /\ remaining_cells_for(turn.player_id) > 1

\* C21: while an announcement is active and the actor's board has more than one
\* empty cell, the only write accepted is the announced category in the announced
\* column; any other write is answered with an error.
C21_AnnouncedWriteOnly ==
    [][(AnnouncedWithCellsToSpare /\ reply'.act = "write_field")
          => \/ /\ reply' = Snapshot("write_field")
                /\ last_write'[turn.player_id].col = "ang"
                /\ WRITABLE_MAP[last_write'[turn.player_id].row] = announced_row4
             \/ /\ reply'.kind = "error"
                /\ UNCHANGED <<scoreboards, scoreboards_by_team, turn, announced_row4>>
      ]_vars

\* a write of another category of the announced column has been turned away
C21_Witness ==
    /\ AnnouncedWithCellsToSpare
    /\ reply = Reply("error", "write_field", "announced_other_field")

\* C22: with no announcement active, a write into the announced column is accepted
\* only if the actor's board has exactly one empty cell or exactly one roll of the
\* turn is consumed; otherwise it is answered with an error.
C22_AnnouncedColumnUnannounced ==
    [][(/\ announced_row4 = NoField
        /\ reply' = Snapshot("write_field")
        /\ last_write'[turn.player_id].col = "ang")
          => (remaining_cells_for(turn.player_id) = 1 \/ rolls_used = 1)]_vars

\* after the second roll a write into the announced column has been turned away
C22_Witness ==
    /\ reply = Reply("error", "write_field", "no_announcement")
    /\ announced_row4 = NoField
    /\ rolls_used = 2
    /\ remaining_cells_for(turn.player_id) > 1

\* reasons write_field gives that stem from the column order or the announcement
OrderOrAnnouncementReasons ==
    {"column_full", "next_required", "announce_only_ang", "announced_other_field",
     "no_announcement"}

\* C23: when the actor's board has exactly one empty cell, a write of the actor into
\* that cell is accepted whatever its column, the announcement and the number of
\* rolls consumed: no column-order or announcement check rejects a write then.
C23_LastCellAlwaysWritable ==
    [][(/\ turn # NoTurn
        /\ remaining_cells_for(turn.player_id) = 1
        /\ reply'.act = "write_field"
        /\ reply'.kind = "error")
          => reply'.why \notin OrderOrAnnouncementReasons]_vars

\* the last cell of a board, in the announced column, has been written after two
\* rolls without an announcement and the game is over
C23_Witness ==
    /\ reply = Snapshot("write_field")
    /\ finished
    /\ \E p \in DOMAIN last_write :
          /\ last_write[p].col = "ang"
          /\ last_write[p].rolls_used = 2
          /\ last_meta[p].announced = NoField
          /\ latest_cell[p] = <<14, "ang">>

\* the player that follows pid in join order, the first one after the last
FollowerOf(pid) == players[(JoinIndex(pid) % Len(players)) + 1]

\* C24: every accepted write resets the dice to zero, clears the holds, puts
\* rolls-used and roll index back to 0 and first4oak_roll to null, clears the
\* announcement and hands the turn to the player following the writer in join
\* order, wrapping from the last player to the first.
C24_WriteEndsTurn ==
    [][reply' = Snapshot("write_field")
          => /\ dice' = ZeroDice
             /\ holds' = NoHolds
             /\ rolls_used' = 0
             /\ announced_row4' = NoField
             /\ turn' = [player_id |-> FollowerOf(turn.player_id), roll_index |-> 0,
                         first4oak_roll |-> None]
             /\ UNCHANGED players
      ]_vars

\* the last joiner of a three-player room has rolled once and written, and the
\* first joiner is on turn
C24_Witness ==
    /\ reply = Snapshot("write_field")
    /\ mode = "3"
    /\ Len(players) = 3
    /\ latest_cell[3] = <<14, "free">>
    /\ last_write[3].rolls_used = 1
    /\ turn.player_id = 1
    /\ dice = ZeroDice

\* the team the k-th joiner belongs to
TeamOfJoiner(k) == IF k % 2 = 1 THEN "A" ELSE "B"

\* the step changes the board of team t on behalf of player pid
ChangesFor(t, pid) ==
    /\ pid \in PlayerIds
    /\ TeamOfJoiner(JoinIndex(pid)) = t

\* C25: in a 2v2 room the k-th joiner plays on the board of team A for odd k and
\* of team B for even k; the personal boards stay empty, and a team's board is
\* changed only by a write of the current actor or a correction of the requester
\* when that player belongs to the team.
C25_TeamBoardsOnly ==
    [][is_team_mode
          => /\ \A k \in DOMAIN players :
                   board_key_for_actor(players[k]) = TeamOfJoiner(k)
             /\ \A pid \in DOMAIN scoreboards' : scoreboards'[pid] = EmptyBoard
             /\ \A t \in DOMAIN scoreboards_by_team :
                   /\ t \in DOMAIN scoreboards_by_team'
                   /\ scoreboards_by_team'[t] # scoreboards_by_team[t]
                        => \/ /\ reply' = Snapshot("write_field")
                              /\ ChangesFor(t, turn.player_id)
                           \/ /\ reply'.act = "write_field_correction"
                              /\ correction.active
                              /\ ChangesFor(t, correction.player_id)
      ]_vars

\* the third and then the fourth joiner of a 2v2 room have written: the cell of
\* each is on the board of its team
C25_Witness ==
    /\ is_team_mode
    /\ reply = Snapshot("write_field")
    /\ latest_cell[3] = <<14, "free">>
    /\ latest_cell[4] = <<14, "free">>
    /\ <<14, "free">> \in DOMAIN scoreboards_by_team["A"]
    /\ <<14, "free">> \in DOMAIN scoreboards_by_team["B"]
    /\ turn.player_id = 1

\* C26: a write is accepted only after at least one roll of the current turn has
\* been consumed; a write sent while rolls-used is 0 is answered with an error.
C26_WriteNeedsRoll ==
    [][reply'.act = "write_field" /\ rolls_used = 0 => reply'.kind = "error"]_vars

\* C27: started and finished are never both true, aborted implies finished and not
\* started, and a room that is finished or aborted never becomes active again, not
\* even through a later join.
C27_RoomLevelState ==
    [][/\ ~(started' /\ finished')
       /\ aborted' => (finished' /\ ~started')
       /\ (finished \/ aborted) => ~started'
      ]_vars

\* the connections whose write_field has been accepted
Accepted == {c \in Conns : conns[c].ok = "accepted"}

\* the cells open at the start of SpecWrites on the board of the player on turn
OpenAtStart == {<<15, "down">>, <<14, "free">>}

\* C28: the checks and the writes of write_field run without any other action in
\* between, so of the write requests that several connections of the current
\* actor's seat send for one turn exactly one is accepted: one cell is written, the
\* turn advances once, and a request for an open cell is refused only because
\* another one was accepted before.
C28_WritesAreSerial ==
    /\ Cardinality(Accepted) <= 1
    /\ Cardinality(DOMAIN TargetBoard(2)) =
          WRITABLE_CELLS_PER_PLAYER - Cardinality(OpenAtStart) + Cardinality(Accepted)
    /\ turn.player_id = IF Accepted = {} THEN 2 ELSE FollowerOf(2)
    /\ \A c \in Conns :
          (conns[c].ok = "rejected" /\ <<conns[c].row, conns[c].col>> \in OpenAtStart)
             => Accepted # {}

\* a request for an open cell has been refused while the answer to the accepted
\* request of the other connection was still being sent
C28_Witness ==
    /\ conns[1].pc = "sending"
    /\ conns[1].ok = "accepted"
    /\ conns[2].ok = "rejected"
    /\ <<conns[2].row, conns[2].col>> \in OpenAtStart
    /\ <<conns[2].row, conns[2].col>> # <<conns[1].row, conns[1].col>>
    /\ reply = Reply("error", "write_field", "not_your_turn")

\* steps of the model that answer nobody without being a rejected action: a roll
\* swallowed by the cooldown, a lapse of time, a sweep of the listing routes
SilentByDesign == {"roll_dice", "time", "sweep"}

\* C29: every rejected action, a roll dropped by the cooldown apart, is answered
\* with one error reply and changes nothing; no action is dropped without an
\* answer, request_correction during an active correction included.
C29_RejectionIsAnswered ==
    [][/\ reply'.kind = "none" => reply'.act \in SilentByDesign
       /\ (reply'.act = "request_correction" /\ correction.active)
            => (reply'.kind = "error" /\ UNCHANGED room)
      ]_vars

\* cancel_correction is handled while a correction is active
CancelsActive == correction.active /\ reply'.act = "cancel_correction"

\* what cancel_correction itself does and leaves alone
CancelFrame ==
    /\ reply' = Snapshot("cancel_correction")
    /\ correction' = NoCorrection
    /\ dice' = ZeroDice
    /\ UNCHANGED <<scoreboards, scoreboards_by_team, turn, rolls_used, last_write>>

\* the cell of the requester's last write is on its board after the step
MoveStaysWritten ==
    LET q == correction.player_id
    IN <<last_write[q].row, last_write[q].col>>
          \in DOMAIN BoardIn(scoreboards', scoreboards_by_team', q)

\* C30: cancel_correction during an active correction always succeeds: the
\* correction is inactive and its frozen dice and metadata are gone, the dice shown
\* are all zero, scoreboards, turn owner, roll count and the requester's last-write
\* record are unchanged, and the move that was to be corrected stands as written.
C30_CancelKeepsMove ==
    [][CancelsActive => (CancelFrame /\ MoveStaysWritten)]_vars

\* the face that occurs at least n times in the hand h (0 if there is none)
FaceTimes(h, n) ==
    IF \E f \in Faces : Cardinality({i \in DicePos : h[i] = f}) >= n
    THEN CHOOSE f \in Faces : Cardinality({i \in DicePos : h[i] = f}) >= n
    ELSE 0

\* the poker score the contract asks for
PokerReference(h) == IF FaceTimes(h, 4) = 0 THEN 0 ELSE 50 + 4 * FaceTimes(h, 4)

\* score_field_value alone meets the contract for poker
PokerByFieldValue == scored.field = "poker" => scored.value = PokerReference(scored.hand)

\* C31: for every five dice with faces 1..6 the poker score, of score_field_value and
\* of rules.score_field with poker allowed, is greater than 0 exactly when some face
\* appears at least four times, and is then 50 + 4 x that face, five of a kind included
C31_PokerScore ==
    (scored.field = "poker" /\ scored.poker_allowed) =>
        /\ scored.value = PokerReference(scored.hand)
        /\ scored.by_rules = PokerReference(scored.hand)

\* how often the face f occurs in the hand h
Times(h, f) == Cardinality({i \in DicePos : h[i] = f})

\* the score the contract asks for
ScoreReference(f, h) ==
    CASE f \in {"1", "2", "3", "4", "5", "6"} ->
            LET k == CHOOSE n \in Faces : WRITABLE_MAP[n - 1] = f IN Times(h, k) * k
      [] f \in {"max", "min"} -> h[1] + h[2] + h[3] + h[4] + h[5]
      [] f = "kenter" -> IF \A i, j \in DicePos : i # j => h[i] # h[j] THEN 35 ELSE 0
      [] f = "full" ->
            IF \E a, b \in Faces : a # b /\ Times(h, a) = 3 /\ Times(h, b) = 2
            THEN 40 + 3 * (CHOOSE a \in Faces : Times(h, a) = 3)
            ELSE IF \A i \in DicePos : h[i] = h[1] THEN 40 + 3 * h[1] ELSE 0
      [] f = "poker" -> PokerReference(h)
      [] f = "60" -> IF \A i \in DicePos : h[i] = h[1] THEN 60 + 5 * h[1] ELSE 0

\* C32: for every five dice with faces 1..6 and each of the 12 categories
\* score_field_value returns the reference score: count x face, the sum for max and
\* min, 35 for five distinct faces, 40 + 3 x face for a full house or five of a kind,
\* 60 + 5 x face for five of a kind, else 0
C32_ScoreIsReference ==
    scored.field # NoField =>
        /\ scored.field \in Fields
        /\ scored.value = ScoreReference(scored.field, scored.hand)

\* a full house whose pair comes first has been scored with the face of its triple
C32_Witness == scored.field = "full" /\ scored.hand = <<2, 2, 3, 3, 3>> /\ scored.value = 49

\* a write_field of the current actor into the column would be accepted now and
\* would store the points
WouldRecord(key, col, points) ==
    /\ ~TimedOut
    /\ WriteFieldVerdict(turn.player_id, KEY_TO_ROW[key], col).ok
    /\ write_value(KEY_TO_ROW[key], col, FALSE) = points

SomeWriteAccepted ==
    /\ ~TimedOut
    /\ \E cell \in AllCells : WriteFieldVerdict(turn.player_id, cell[1], cell[2]).ok

\* C34: in a started, unfinished room with no correction active the current actor can
\* always end the turn by its own rolls, announcements and writes.  From the second
\* roll on announce_row4 is refused and a further roll changes nothing a write is
\* judged by, so some write must be accepted at once; before, the actor may
\* still roll and announce
C34_TurnCanEnd ==
    (started /\ ~finished /\ ~correction.active /\ turn.player_id # None) =>
        (rolls_used < 2 \/ SomeWriteAccepted)

\* C35: whenever a correction is active, the current actor is not the requester, no
\* roll has been consumed in the current turn, no announcement is active and the
\* visible dice are the frozen dice of the requester's last write
C35_CorrectionContext ==
    correction.active =>
        /\ turn.player_id # correction.player_id
        /\ rolls_used = 0
        /\ announced_row4 = NoField
        /\ dice = correction.dice
        /\ correction.player_id \in DOMAIN last_dice
        /\ dice = last_dice[correction.player_id]

\* a correction has just been requested and the dice of the corrected write are shown
C35_Witness ==
    /\ correction.active
    /\ reply = Snapshot("request_correction")
    /\ dice = <<1, 1, 1, 2, 1>>
    /\ turn.player_id # correction.player_id

\* C36: once a room is finished or aborted, no later action changes a scoreboard, the
\* turn owner or the correction context
C36_FinishedRoomFrozen ==
    [][(finished \/ aborted) =>
          /\ scoreboards' = scoreboards
          /\ scoreboards_by_team' = scoreboards_by_team
          /\ turn'.player_id = turn.player_id
          /\ correction' = correction]_vars

\* C37: a room never has more players than it expects, and the player list of a
\* started room does not change: a join_game sent to a full or started room adds no
\* player
C37_PlayerListFixed ==
    [][/\ Len(players') <= Expected
       /\ (started \/ Len(players) >= Expected) => players' = players]_vars

\* C38: with no correction active, all five dice are 0 when no roll has been
\* consumed in the current turn and all five are in 1..6 when at least one has been,
\* so that no write after a roll scores a hand with a 0 die
C38_DiceMatchRolls ==
    ~correction.active =>
        /\ rolls_used = 0 => dice = ZeroDice
        /\ rolls_used > 0 => \A i \in DicePos : dice[i] \in Faces

\* C39: cancel_correction sent while no correction is active leaves the room as it
\* is, the dice of the current actor in the middle of a turn included
C39_IdleCancelChangesNothing ==
    [][(reply'.act = "cancel_correction" /\ ~correction.active) =>
          UNCHANGED <<players, started, finished, aborted, turn, dice, holds, rolls_used,
                      rolls_max, scoreboards, scoreboards_by_team, announced_row4,
                      correction, last_write, last_dice, last_meta>>]_vars

\* C40: the holds are always five booleans and change only at the end of a turn
\* (write_field resets them) or through a set_hold that only the current actor can
\* have sent, with no correction active
C40_HoldsOnlyByActor ==
    [][/\ holds' \in [DicePos -> BOOLEAN]
       /\ holds' # holds =>
             \/ reply'.act = "write_field"
             \/ /\ reply'.act = "set_hold"
                /\ ~correction.active
                /\ \A pid \in Senders : SetHoldBy(pid, holds') => pid = turn.player_id]_vars
====
